---- MODULE Spec2Model ----
(***************************************************************************)
(* typed-argparse: the record materializer (typed_args.py, type_utils.py)  *)
(* and the declarative parser / sub-command builder (parser.py).           *)
(*                                                                         *)
(* Python values are records [t |-> <type name>, v |-> <string>], so that  *)
(* values of different Python types can be compared.  Python dicts are     *)
(* sequences of <<key, value>> pairs in insertion order.                   *)
(***************************************************************************)
EXTENDS Integers, Sequences, FiniteSets, TLC

VARIABLES mat, parser, parsed, app, val, cmp, dyn, uni, fld

vars == <<mat, parser, parsed, app, val, cmp, dyn, uni, fld>>

(***************************************************************************)
(* Python values                                                           *)
(***************************************************************************)
PyNone == [t |-> "NoneType", v |-> "None"]
PyStr(s) == [t |-> "str", v |-> s]
PyInt(s) == [t |-> "int", v |-> s]
PyBool(b) == [t |-> "bool", v |-> IF b THEN "True" ELSE "False"]
PyFloat(s) == [t |-> "float", v |-> s]

\* an instance of a user class
PyObj(cls, id) == [t |-> cls, v |-> id]

\* a member of an Enum class, known by its name
PyEnum(enum, name) == [t |-> enum, v |-> name]

\* a list object
PyList(items) == [t |-> "list", v |-> "list", items |-> items]

\* issubclass(sub, sup) on the types of the model: bool derives from int,
\* MySubClass from MyClass.
IsSubclass(sub, sup) ==
    \/ sub = sup
    \/ sup = "object"
    \/ sub = "bool" /\ sup = "int"
    \/ sub = "MySubClass" /\ sup = "MyClass"

\* a check of the exact type instead of isinstance: type(value) is raw_type
IsExactType(value, raw_type) == value.t = raw_type

\* isinstance(value, raw_type)
IsInstance(value, raw_type) == IsSubclass(value.t, raw_type)

\* a comparison of type and value, under which True is not 1
PySame(a, b) == a = b

\* a == b of Python: numbers compare by value (True == 1), lists element by
\* element, everything else of the model by type and value
RECURSIVE PyEq(_, _)
PyEq(a, b) ==
    IF a.t = "list" /\ b.t = "list"
    THEN /\ Len(a.items) = Len(b.items)
         /\ \A i \in 1..Len(a.items) : PyEq(a.items[i], b.items[i])
    ELSE IF a.t \in {"bool", "int"} /\ b.t \in {"bool", "int"}
    THEN LET NumOf(x) == IF x.t = "int" THEN x.v
                         ELSE IF x.v = "True" THEN "1" ELSE "0"
         IN  NumOf(a) = NumOf(b)
    ELSE a = b

(***************************************************************************)
(* Ordered dicts                                                           *)
(***************************************************************************)
DictKeys(d) == [i \in 1..Len(d) |-> d[i][1]]

DictValues(d) == [i \in 1..Len(d) |-> d[i][2]]

DictHas(d, k) == \E i \in 1..Len(d) : d[i][1] = k

DictGet(d, k) == d[CHOOSE i \in 1..Len(d) : d[i][1] = k][2]

\* d[k] = v: an existing key keeps its position, a new key is appended.
DictSet(d, k, v) ==
    IF DictHas(d, k)
    THEN [i \in 1..Len(d) |-> IF d[i][1] = k THEN <<k, v>> ELSE d[i]]
    ELSE Append(d, <<k, v>>)

SeqToSet(s) == {s[i] : i \in 1..Len(s)}

(***************************************************************************)
(* Type annotations (type_utils.py)                                        *)
(***************************************************************************)
\* a raw annotation: origin/args as TypeAnnotation.__init__ reads them
Scalar(type) == [origin |-> "None", raw |-> type, args |-> <<>>]

\* typing.Union[members]: typing flattens nested unions and drops repeated
\* members; a union of one member is that member
UnionOf(members) ==
    LET flat(m) == IF m.origin = "Union" THEN m.args ELSE <<m>>
        fresh(m, acc) == SelectSeq(flat(m), LAMBDA x : x \notin SeqToSet(acc))
        UnionMembers[i \in 0..Len(members)] ==
            IF i = 0 THEN <<>>
            ELSE UnionMembers[i - 1] \o fresh(members[i], UnionMembers[i - 1])
        args == UnionMembers[Len(members)]
    IN  IF Len(args) = 1 THEN args[1]
        ELSE [origin |-> "Union", raw |-> "Union", args |-> args]

\* typing.Optional[inner] is Union[inner, None]
OptionalOf(inner) == UnionOf(<<inner, Scalar("NoneType")>>)

LiteralOf(values) == [origin |-> "Literal", raw |-> "Literal", args |-> values]

\* typing.List[inner]
ListOf(inner) == [origin |-> "list", raw |-> "List", args |-> <<inner>>]

\* typing.Dict[...]: a generic alias that is neither a list nor a type
DictOf(key, value) == [origin |-> "dict", raw |-> "Dict", args |-> <<key, value>>]

\* the Enum classes of the model and their members in definition order
EnumMembers ==
    [StrEnum |-> <<[name |-> "some_foo", value |-> PyStr("some_foo_value")],
                   [name |-> "SOME_BAR", value |-> PyStr("SOME-BAR_VALUE")]>>,
     IntEnum |-> <<[name |-> "a", value |-> PyInt("1")],
                   [name |-> "b", value |-> PyInt("2")],
                   [name |-> "c", value |-> PyInt("3")]>>,
     MixEnum |-> <<[name |-> "B", value |-> PyStr("c")],
                   [name |-> "a", value |-> PyStr("b")]>>]

\* the NewType declarations of the model and their __supertype__
NewTypes == [MyString |-> Scalar("str")]

NoError == <<>>

typename(t) == t

typename_of(value) == typename(value.t)

IsNoneTypeAnn(a) == a.origin = "None" /\ a.raw = "NoneType"

\* get_underlying_if_optional without the test for exactly two members: any
\* union that has None among its members counts as Optional of its first other
\* member
get_underlying_if_optional_any_length(a) ==
    IF a.origin = "Union" /\ \E i \in 1..Len(a.args) : IsNoneTypeAnn(a.args[i])
    THEN <<a.args[CHOOSE i \in 1..Len(a.args) :
               /\ ~IsNoneTypeAnn(a.args[i])
               /\ \A j \in 1..(i-1) : IsNoneTypeAnn(a.args[j])]>>
    ELSE <<>>

\* TypeAnnotation.get_underlying_if_optional: <<inner>> or <<>>
get_underlying_if_optional(a) ==
    IF a.origin = "Union" /\ Len(a.args) = 2
       /\ \E i \in 1..2 : IsNoneTypeAnn(a.args[i])
    THEN IF \E i \in 1..2 : ~IsNoneTypeAnn(a.args[i])
         THEN <<a.args[CHOOSE i \in 1..2 :
                    /\ ~IsNoneTypeAnn(a.args[i])
                    /\ \A j \in 1..(i-1) : IsNoneTypeAnn(a.args[j])]>>
         ELSE <<>>
    ELSE <<>>

\* a get_underlying_if_list that looks through one layer of Optional first
get_underlying_if_list_through_optional(a) ==
    LET inner == IF get_underlying_if_optional(a) # <<>>
                 THEN get_underlying_if_optional(a)[1] ELSE a
    IN  IF inner.origin = "list" /\ Len(inner.args) >= 1
        THEN <<inner.args[1]>> ELSE <<>>

\* TypeAnnotation.get_underlying_if_list: <<inner>> or <<>>
get_underlying_if_list(a) ==
    IF a.origin = "list" /\ Len(a.args) >= 1 THEN <<a.args[1]>> ELSE <<>>

\* TypeAnnotation.get_underlying_if_new_type: <<supertype>> or <<>>
get_underlying_if_new_type(a) ==
    IF a.origin = "None" /\ a.raw \in DOMAIN NewTypes
    THEN <<NewTypes[a.raw]>> ELSE <<>>

\* TypeAnnotation.get_underlyings_if_union: the members, <<>> if not a union
get_underlyings_if_union(a) ==
    IF a.origin = "Union" THEN a.args ELSE <<>>

\* TypeAnnotation.get_allowed_values_if_literal: <<values>> or <<>>
get_allowed_values_if_literal(a) ==
    IF a.origin = "Literal" THEN <<a.args>> ELSE <<>>

\* TypeAnnotation.get_allowed_values_if_enum: <<members>> or <<>>
get_allowed_values_if_enum(a) ==
    IF a.origin = "None" /\ a.raw \in DOMAIN EnumMembers
    THEN <<[i \in 1..Len(EnumMembers[a.raw]) |->
               PyEnum(a.raw, EnumMembers[a.raw][i].name)]>>
    ELSE <<>>

\* the underlying value of an Enum member
EnumValue(member) ==
    LET members == EnumMembers[member.t]
    IN  members[CHOOSE i \in 1..Len(members) : members[i].name = member.v].value

\* isinstance(raw_type, type): generic aliases and NewTypes are not types
IsType(a) == a.origin = "None" /\ a.raw \notin DOMAIN NewTypes

\* repr(value) as a sequence of words: a string is quoted, a list shows the
\* repr of its elements, an Enum member its name and the repr of its value
RECURSIVE Repr(_), ReprAll(_)
Repr(value) ==
    IF value.t = "list" THEN <<"[">> \o ReprAll(value.items) \o <<"]">>
    ELSE IF value.t = "str" THEN <<"'", value.v, "'">>
    ELSE IF value.t \in DOMAIN EnumMembers
    THEN <<"<", value.t, ".", value.v, ":">> \o Repr(EnumValue(value)) \o <<">">>
    ELSE <<value.v>>

\* the repr of the elements of a tuple or list, in order
ReprAll(values) ==
    IF values = <<>> THEN <<>> ELSE Repr(values[1]) \o ReprAll(Tail(values))

\* str(value), the text of f"{value}": a string is not quoted, an Enum member
\* shows class and name, everything else of the model shows its repr
Str(value) ==
    IF value.t = "str" THEN <<value.v>>
    ELSE IF value.t \in DOMAIN EnumMembers THEN <<value.t, ".", value.v>>
    ELSE Repr(value)

\* TypeAnnotation.validate: <<converted value, error>>, error = NoError on success
RECURSIVE validate(_, _), validate_union(_, _, _, _), validate_list(_, _, _, _)
validate(a, value) ==
    IF get_underlying_if_optional(a) # <<>>
    THEN IF value = PyNone
         THEN <<PyNone, NoError>>
         ELSE validate(get_underlying_if_optional(a)[1], value)
    ELSE IF Len(get_underlyings_if_union(a)) > 0
    THEN validate_union(get_underlyings_if_union(a), 1, value, <<>>)
    ELSE IF get_underlying_if_list(a) # <<>>
    THEN IF value = PyNone
         THEN <<PyList(<<>>), NoError>>
         ELSE IF ~IsInstance(value, "list")
         THEN <<value, <<"value is of type", typename_of(value),
                         "expected", "list">>>>
         ELSE validate_list(get_underlying_if_list(a)[1], value, 1, <<>>)
    ELSE IF get_allowed_values_if_literal(a) # <<>>
    THEN IF \E i \in 1..Len(a.args) : PyEq(value, a.args[i])
         THEN <<value, NoError>>
         ELSE <<value, <<"value">> \o Str(value)
                        \o <<"does not match any allowed literal value in">>
                        \o ReprAll(a.args)>>
    ELSE IF get_allowed_values_if_enum(a) # <<>>
    THEN LET allowed == get_allowed_values_if_enum(a)[1]
             hits == {i \in 1..Len(allowed) :
                         \/ PyEq(value, EnumValue(allowed[i]))
                         \/ value = allowed[i]}
         IN  IF hits # {}
             THEN <<allowed[CHOOSE i \in hits : \A j \in hits : i <= j], NoError>>
             ELSE <<value, <<"value">> \o Str(value)
                            \o <<"does not match any allowed enum value in">>
                            \o ReprAll(allowed)>>
    ELSE IF get_underlying_if_new_type(a) # <<>>
    THEN validate(get_underlying_if_new_type(a)[1], value)
    ELSE IF ~IsType(a)
    THEN <<value, <<"Type annotation is of type", "_GenericAlias",
                    "expected", "type">>>>
    ELSE IF IsInstance(value, a.raw)
    THEN <<value, NoError>>
    ELSE <<value, <<"value is of type", typename_of(value),
                    "expected", typename(a.raw)>>>>

\* a loop over the members of a union that keeps only the first failure
RECURSIVE validate_union_first_reason(_, _, _, _)
validate_union_first_reason(underlyings, i, value, errors) ==
    IF i > Len(underlyings)
    THEN <<value, <<"value">> \o Str(value)
                   \o <<"did not match any type of union">> \o errors>>
    ELSE LET r == validate(underlyings[i], value)
         IN  IF r[2] = NoError THEN <<r[1], NoError>>
             ELSE validate_union_first_reason(underlyings, i + 1, value,
                      IF errors = <<>> THEN <<"-">> \o r[2] ELSE errors)

\* the loop over the members of a union; errors collects the failures, each
\* after a "-"
validate_union(underlyings, i, value, errors) ==
    IF i > Len(underlyings)
    THEN <<value, <<"value">> \o Str(value)
                   \o <<"did not match any type of union">> \o errors>>
    ELSE LET r == validate(underlyings[i], value)
         IN  IF r[2] = NoError THEN <<r[1], NoError>>
             ELSE validate_union(underlyings, i + 1, value,
                                 errors \o <<"-">> \o r[2])

\* a loop over the elements of a list that stops after the first element
validate_list_first_only(underlying, value, i, new_values) ==
    IF value.items = <<>> THEN <<PyList(<<>>), NoError>>
    ELSE LET r == validate(underlying, value.items[1])
         IN  IF r[2] # NoError
             THEN <<value, <<"not all elements of the list have proper type (">>
                            \o r[2] \o <<")">>>>
             ELSE <<PyList(<<r[1]>> \o Tail(value.items)), NoError>>

\* the loop over the elements of a list
validate_list(underlying, value, i, new_values) ==
    IF i > Len(value.items) THEN <<PyList(new_values), NoError>>
    ELSE LET r == validate(underlying, value.items[i])
         IN  IF r[2] # NoError
             THEN <<value, <<"not all elements of the list have proper type (">>
                            \o r[2] \o <<")">>>>
             ELSE validate_list(underlying, value, i + 1, Append(new_values, r[1]))

\* validate_with_error that drops the error instead of raising it
validate_never_raises(a, value, arg_name) ==
    [raised |-> FALSE, value |-> validate(a, value)[1], msg |-> NoError]

\* TypeAnnotation.validate_with_error: the value, or the TypeError raised
validate_with_error(a, value, arg_name) ==
    LET raise_or_return(r) ==
            IF r[2] # NoError
            THEN [raised |-> TRUE, value |-> r[1],
                  msg |-> <<"Failed to validate argument", arg_name>> \o r[2]]
            ELSE [raised |-> FALSE, value |-> r[1], msg |-> NoError]
    IN  raise_or_return(validate(a, value))

(***************************************************************************)
(* Converters of command line tokens (type_utils.py)                       *)
(***************************************************************************)
\* the characters of the strings of the model
Chars ==
    ("a" :> <<"a">>) @@ ("b" :> <<"b">>) @@ ("c" :> <<"c">>) @@ ("B" :> <<"B">>) @@
    ("1" :> <<"1">>) @@ ("4" :> <<"4">>) @@
    ("some_foo" :> <<"s", "o", "m", "e", "_", "f", "o", "o">>) @@
    ("SoMe-FoO" :> <<"S", "o", "M", "e", "-", "F", "o", "O">>) @@
    ("some_foo_value" :>
        <<"s", "o", "m", "e", "_", "f", "o", "o", "_", "v", "a", "l", "u", "e">>) @@
    ("SOME_BAR" :> <<"S", "O", "M", "E", "_", "B", "A", "R">>) @@
    ("SOME-BAR_VALUE" :>
        <<"S", "O", "M", "E", "-", "B", "A", "R", "_", "V", "A", "L", "U", "E">>) @@
    \* field names, flags and command-line tokens
    ("x" :> <<"x">>) @@ ("y" :> <<"y">>) @@ ("v" :> <<"v">>) @@ ("d" :> <<"d">>) @@
    ("verbose" :> <<"v", "e", "r", "b", "o", "s", "e">>) @@
    ("foo" :> <<"f", "o", "o">>) @@ ("num" :> <<"n", "u", "m">>) @@
    ("my_arg" :> <<"m", "y", "_", "a", "r", "g">>) @@
    ("mode" :> <<"m", "o", "d", "e">>) @@
    ("from_argparse" :>
        <<"f", "r", "o", "m", "_", "a", "r", "g", "p", "a", "r", "s", "e">>) @@
    ("level" :> <<"l", "e", "v", "e", "l">>) @@
    ("names" :> <<"n", "a", "m", "e", "s">>) @@
    ("root" :> <<"r", "o", "o", "t">>) @@
    ("foo_root" :> <<"f", "o", "o", "_", "r", "o", "o", "t">>) @@
    ("bar" :> <<"b", "a", "r">>) @@ ("-m" :> <<"-", "m">>) @@
    ("--bar" :> <<"-", "-", "b", "a", "r">>) @@ ("--x" :> <<"-", "-", "x">>) @@
    ("--my-arg" :> <<"-", "-", "m", "y", "-", "a", "r", "g">>) @@
    ("--my_arg" :> <<"-", "-", "m", "y", "_", "a", "r", "g">>) @@
    ("--my-args" :> <<"-", "-", "m", "y", "-", "a", "r", "g", "s">>)

\* a comparison that does not normalize case and hyphens
_exact_compare(a, b) == PyEq(a, b)

\* _fuzzy_compare: strings are compared after lower() and replace("-", "_"),
\* everything else with ==
_fuzzy_compare(a, b) ==
    IF a.t = "str" /\ b.t = "str"
    THEN LET upper == <<"A", "B", "E", "F", "L", "M", "O", "R", "S", "U", "V">>
             lower == <<"a", "b", "e", "f", "l", "m", "o", "r", "s", "u", "v">>
             Lower(c) == IF \E i \in 1..Len(upper) : upper[i] = c
                         THEN lower[CHOOSE i \in 1..Len(upper) : upper[i] = c]
                         ELSE c
             Replace(c) == IF c = "-" THEN "_" ELSE c
             Norm(x) == [i \in 1..Len(Chars[x]) |-> Replace(Lower(Chars[x][i]))]
         IN  Norm(a.v) = Norm(b.v)
    ELSE PyEq(a, b)

\* type(allowed_value)(x) for a str x: <<the value>>, or <<>> for the
\* ValueError or TypeError the call ends with
x_converted(allowed_value, x) ==
    IF allowed_value.t = "str" THEN <<x>>
    ELSE IF allowed_value.t = "int"
    THEN IF \A i \in 1..Len(Chars[x.v]) : Chars[x.v][i] \in {"1", "2", "3", "4"}
         THEN <<PyInt(x.v)>> ELSE <<>>
    ELSE <<>>

\* the closure _create_literal_type_converter returns, applied to x
_create_literal_type_converter(allowed_values, x) ==
    LET hits == {i \in 1..Len(allowed_values) :
                    \/ _fuzzy_compare(x, allowed_values[i])
                    \/ /\ x_converted(allowed_values[i], x) # <<>>
                       /\ _fuzzy_compare(x_converted(allowed_values[i], x)[1],
                                         allowed_values[i])}
    IN  IF hits = {} THEN x
        ELSE allowed_values[CHOOSE i \in hits : \A j \in hits : i <= j]

\* an enum converter that looks for a member of that value first, then for a
\* member of that name, and only then for a member alike the token
_create_enum_type_converter_value_first(allowed_values, x) ==
    LET members == 1..Len(allowed_values)
        first(S) == allowed_values[CHOOSE i \in S : \A j \in S : i <= j]
        by_value == {i \in members : PyEq(x, EnumValue(allowed_values[i]))}
        by_name == {i \in members : PyEq(x, PyStr(allowed_values[i].v))}
        alike == {i \in members :
                    \/ _fuzzy_compare(x, PyStr(allowed_values[i].v))
                    \/ _fuzzy_compare(x, EnumValue(allowed_values[i]))
                    \/ /\ x_converted(EnumValue(allowed_values[i]), x) # <<>>
                       /\ _fuzzy_compare(x_converted(EnumValue(allowed_values[i]), x)[1],
                                         EnumValue(allowed_values[i]))}
    IN  IF by_value # {} THEN first(by_value)
        ELSE IF by_name # {} THEN first(by_name)
        ELSE IF alike # {} THEN first(alike)
        ELSE x

\* the closure _create_enum_type_converter returns, applied to x
_create_enum_type_converter(allowed_values, x) ==
    LET hits == {i \in 1..Len(allowed_values) :
                    \/ _fuzzy_compare(x, PyStr(allowed_values[i].v))
                    \/ _fuzzy_compare(x, EnumValue(allowed_values[i]))
                    \/ /\ x_converted(EnumValue(allowed_values[i]), x) # <<>>
                       /\ _fuzzy_compare(x_converted(EnumValue(allowed_values[i]), x)[1],
                                         EnumValue(allowed_values[i]))}
    IN  IF hits = {} THEN x
        ELSE allowed_values[CHOOSE i \in hits : \A j \in hits : i <= j]

\* TypeAnnotation.get_underlying_type_converter: the class itself, a literal or
\* enum converter over the allowed values, or none
RECURSIVE get_underlying_type_converter(_)
get_underlying_type_converter(a) ==
    IF IsType(a) /\ a.raw \notin DOMAIN EnumMembers
    THEN [kind |-> "type", raw |-> a.raw, allowed_values |-> <<>>]
    ELSE IF get_underlying_if_optional(a) # <<>>
    THEN get_underlying_type_converter(get_underlying_if_optional(a)[1])
    ELSE IF get_underlying_if_list(a) # <<>>
    THEN get_underlying_type_converter(get_underlying_if_list(a)[1])
    ELSE IF get_allowed_values_if_literal(a) # <<>>
    THEN [kind |-> "literal", raw |-> a.raw,
          allowed_values |-> get_allowed_values_if_literal(a)[1]]
    ELSE IF get_allowed_values_if_enum(a) # <<>>
    THEN [kind |-> "enum", raw |-> a.raw,
          allowed_values |-> get_allowed_values_if_enum(a)[1]]
    ELSE [kind |-> "None", raw |-> "None", allowed_values |-> <<>>]

(***************************************************************************)
(* Record types (TypedArgs subclasses declared by the caller)              *)
(***************************************************************************)
\* names defined on TypedArgs itself (TypedArgs.__dict__)
TypedArgsDict ==
    {"__init__", "from_argparse", "__repr__", "__str__", "__eq__", "__ne__",
     "get_choices_from", "__module__", "__doc__", "__dict__", "__weakref__",
     "__hash__"}

Classes ==
    {"CommonArgs", "FooArgs", "BarArgs", "Args", "BadArgs", "EnumArgs",
     "Root", "FooRoot", "FooA", "FooB", "Bar"}

\* the class each record type derives from
Base ==
    [c \in Classes |->
        CASE c \in {"FooArgs", "BarArgs"} -> "CommonArgs"
          [] c \in {"FooRoot", "Bar"} -> "Root"
          [] c \in {"FooA", "FooB"} -> "FooRoot"
          [] OTHER -> "TypedArgs"]

\* the annotations a class body declares itself, in declaration order
OwnAnnotations ==
    [c \in Classes |->
        CASE c = "CommonArgs" -> << <<"verbose", Scalar("bool")>> >>
          [] c = "FooArgs" -> << <<"x", Scalar("str")>> >>
          [] c = "BarArgs" -> << <<"y", Scalar("str")>> >>
          [] c = "Args" -> << <<"foo", Scalar("str")>>,
                              <<"num", Scalar("int")>>,
                              <<"my_arg", OptionalOf(Scalar("str"))>>,
                              <<"mode", LiteralOf(<<PyStr("a"), PyStr("b")>>)>> >>
          [] c = "BadArgs" -> << <<"foo", Scalar("str")>>,
                                 <<"from_argparse", Scalar("str")>> >>
          [] c = "EnumArgs" -> << <<"level", Scalar("IntEnum")>>,
                                  <<"names", ListOf(Scalar("str"))>> >>
          [] c = "Root" -> << <<"root", Scalar("str")>> >>
          [] c = "FooRoot" -> << <<"foo_root", Scalar("str")>> >>
          [] c = "FooA" -> << <<"a", Scalar("str")>> >>
          [] c = "FooB" -> << <<"b", Scalar("str")>> >>
          [] c = "Bar" -> << <<"foo_root", Scalar("str")>> >>]

\* the `= arg(default=...)` a class body gives to its own fields
OwnArgDefaults ==
    [c \in Classes |->
        CASE c = "Root" -> << <<"root", PyStr("root")>> >>
          [] c = "FooRoot" -> << <<"foo_root", PyStr("foo_root")>> >>
          [] c = "FooA" -> << <<"a", PyStr("a")>> >>
          [] c = "FooB" -> << <<"b", PyStr("b")>> >>
          [] c = "Bar" -> << <<"foo_root", PyStr("foo_root_in_other_branch")>> >>
          [] OTHER -> <<>>]

RECURSIVE DictUpdate(_, _)
DictUpdate(d, other) ==
    IF other = <<>> THEN d
    ELSE DictUpdate(DictSet(d, other[1][1], other[1][2]), Tail(other))

\* get_type_hints(cls): walks the MRO from the base-most class down
RECURSIVE collect_type_annotations(_)
collect_type_annotations(cls) ==
    IF cls = "TypedArgs" THEN <<>>
    ELSE DictUpdate(collect_type_annotations(Base[cls]), OwnAnnotations[cls])

\* str.replace("_", "-") on the attribute names of the model
WithHyphen(name) ==
    CASE name = "my_arg" -> "my-arg"
      [] name = "foo_root" -> "foo-root"
      [] OTHER -> name

(***************************************************************************)
(* Record materializer (typed_args.py)                                     *)
(***************************************************************************)
\* the loop over the annotations; st = [kwargs, missing_args, error]
RECURSIVE NamespaceLoop(_, _, _, _)
NamespaceLoop(annotations, i, args, st) ==
    IF i > Len(annotations) \/ st.error # NoError THEN st
    ELSE
      LET arg_name == annotations[i][1]
          type_annotation == annotations[i][2]
          arg_name_with_hyphen == WithHyphen(arg_name)
          \* kwargs[arg_name] = value, or the TypeError of the validation r
          store(r) ==
              IF r.raised
              THEN [st EXCEPT !.error = r.msg]
              ELSE NamespaceLoop(annotations, i + 1, args,
                       [st EXCEPT !.kwargs = DictSet(@, arg_name, r.value)])
      IN  IF arg_name \in TypedArgsDict
          THEN [st EXCEPT !.error =
                   <<"A type must not have an argument called", arg_name>>]
          ELSE IF arg_name \in DOMAIN args
          THEN store(validate_with_error(type_annotation, args[arg_name], arg_name))
          ELSE IF arg_name_with_hyphen \in DOMAIN args
          THEN store(validate_with_error(type_annotation,
                                         args[arg_name_with_hyphen], arg_name))
          ELSE NamespaceLoop(annotations, i + 1, args,
                   [st EXCEPT !.missing_args = Append(@, arg_name)])

\* sorted(...) of a set of attribute names
RECURSIVE SortedNames(_, _)
SortedNames(order, S) ==
    IF order = <<>> THEN <<>>
    ELSE IF order[1] \in S
         THEN <<order[1]>> \o SortedNames(Tail(order), S)
         ELSE SortedNames(Tail(order), S)

\* the attribute names of the model in Python's string order
NameOrder ==
    <<"<sub-command>", "<sub-sub-command>", "<sub-sub-sub-command>",
      "<sub-sub-sub-sub-command>",
      "bar", "extra", "foo", "from_argparse", "mode", "my-arg", "my_arg",
      "num", "verbose", "x", "y">>

\* the TypeError text for missing arguments (singular / list wording)
MissingArgsFirstOnly(missing_args) ==
    <<"Arguments object is missing argument", missing_args[1]>>

MissingArgsError(missing_args) ==
    IF Len(missing_args) = 1
    THEN <<"Arguments object is missing argument", missing_args[1]>>
    ELSE <<"Arguments object is missing arguments">> \o missing_args

\* the TypeError text for unexpected extra arguments
ExtraArgsError(extra_args) ==
    IF Len(extra_args) = 1
    THEN <<"Arguments object has an unexpected extra argument", extra_args[1]>>
    ELSE <<"Arguments object has unexpected extra arguments">> \o extra_args

\* an _argparse_namespace_to_dict that reports extra arguments before missing
\* ones
_argparse_namespace_to_dict_extras_first(cls, args, disallow_extra_args) ==
    LET annotations == collect_type_annotations(cls)
        extra_args == SortedNames(NameOrder,
                          DOMAIN args \ SeqToSet(DictKeys(annotations)))
        after_loop(st) ==
            IF st.error # NoError
            THEN [error |-> st.error, kwargs |-> <<>>]
            ELSE IF disallow_extra_args /\ Len(extra_args) > 0
            THEN [error |-> ExtraArgsError(extra_args), kwargs |-> <<>>]
            ELSE IF Len(st.missing_args) > 0
            THEN [error |-> MissingArgsError(st.missing_args), kwargs |-> <<>>]
            ELSE [error |-> NoError, kwargs |-> st.kwargs]
    IN  after_loop(NamespaceLoop(annotations, 1, args,
            [kwargs |-> <<>>, missing_args |-> <<>>, error |-> NoError]))

\* _argparse_namespace_to_dict: [error, kwargs]
_argparse_namespace_to_dict(cls, args, disallow_extra_args) ==
    LET annotations == collect_type_annotations(cls)
        extra_args == SortedNames(NameOrder,
                          DOMAIN args \ SeqToSet(DictKeys(annotations)))
        \* the checks that follow the loop over the annotations
        after_loop(st) ==
            IF st.error # NoError
            THEN [error |-> st.error, kwargs |-> <<>>]
            ELSE IF Len(st.missing_args) > 0
            THEN [error |-> MissingArgsError(st.missing_args), kwargs |-> <<>>]
            ELSE IF disallow_extra_args /\ Len(extra_args) > 0
            THEN [error |-> ExtraArgsError(extra_args), kwargs |-> <<>>]
            ELSE [error |-> NoError, kwargs |-> st.kwargs]
    IN  after_loop(NamespaceLoop(annotations, 1, args,
            [kwargs |-> <<>>, missing_args |-> <<>>, error |-> NoError]))

\* a from_argparse that checks the raw values but stores them as they came
from_argparse_raw(cls, args, disallow_extra_args) ==
    LET construct(r) ==
            IF r.error # NoError
            THEN [kind |-> "TypeError", type |-> cls, dict |-> <<>>, msg |-> r.error]
            ELSE [kind |-> "instance", type |-> cls, msg |-> NoError,
                  dict |-> [i \in 1..Len(r.kwargs) |->
                               <<r.kwargs[i][1], args[r.kwargs[i][1]]>>]]
    IN  construct(_argparse_namespace_to_dict(cls, args, disallow_extra_args))

\* TypedArgs.from_argparse: the instance (its exact type and its __dict__),
\* or the TypeError
from_argparse(cls, args, disallow_extra_args) ==
    LET construct(r) ==
            IF r.error # NoError
            THEN [kind |-> "TypeError", type |-> cls, dict |-> <<>>, msg |-> r.error]
            ELSE [kind |-> "instance", type |-> cls, dict |-> r.kwargs, msg |-> NoError]
    IN  construct(_argparse_namespace_to_dict(cls, args, disallow_extra_args))

NoResult == [kind |-> "none", type |-> "None", dict |-> <<>>, msg |-> NoError]

\* TypedArgs.__init__(**kwargs): every keyword becomes an attribute, unchecked
__init__(cls, kwargs) ==
    [kind |-> "instance", type |-> cls, dict |-> DictUpdate(<<>>, kwargs),
     msg |-> NoError]

\* an __eq__ that also requires both instances to be of the same type
__eq__same_type(self, other) ==
    /\ other.kind = "instance"
    /\ self.type = other.type
    /\ self.dict = other.dict

\* TypedArgs.__eq__: with another record instance the two __dict__ are compared
\* (dict equality: the same keys, equal values, whatever the order), with
\* anything else the result is False
__eq__(self, other) ==
    IF other.kind = "instance"
    THEN /\ SeqToSet(DictKeys(self.dict)) = SeqToSet(DictKeys(other.dict))
         /\ \A i \in 1..Len(self.dict) :
                PyEq(self.dict[i][2], DictGet(other.dict, self.dict[i][1]))
    ELSE FALSE

\* TypedArgs.__ne__
__ne__(self, other) == ~__eq__(self, other)

\* a validate_type_union that keeps trying after a success and returns the
\* instance of the last candidate that materializes
validate_type_union_last(args, type_union) ==
    LET sub_types == get_underlyings_if_union(type_union)
        candidates == SelectSeq(sub_types, LAMBDA t : IsType(t) /\ t.raw \in Classes)
        results == [i \in 1..Len(candidates) |->
                       from_argparse(candidates[i].raw, args, FALSE)]
        ok == {i \in 1..Len(candidates) : results[i].kind = "instance"}
    IN  IF ok # {} THEN results[CHOOSE i \in ok : \A j \in ok : j <= i]
        ELSE [kind |-> "TypeError", type |-> "None", dict |-> <<>>,
              msg |-> <<"no candidate">>]

\* validate_type_union: the instance of the first sub type that is a record
\* type and materializes, or the TypeError; errors collects str(e) of every
\* record type tried, each after a "-"
validate_type_union(args, type_union) ==
    LET sub_types == get_underlyings_if_union(type_union)
        is_record(t) == IsType(t) /\ t.raw \in Classes
        loop[i \in 1..(Len(sub_types) + 1)] ==
            \* [returned, errors] from the i-th sub type on
            IF i > Len(sub_types) THEN [returned |-> NoResult, errors |-> <<>>]
            ELSE IF ~is_record(sub_types[i]) THEN loop[i + 1]
            ELSE LET tried(r) ==
                         IF r.kind = "instance"
                         THEN [returned |-> r, errors |-> <<>>]
                         ELSE [loop[i + 1] EXCEPT !.errors = <<"-">> \o r.msg \o @]
                 IN  tried(from_argparse(sub_types[i].raw, args, FALSE))
        raise(errors) ==
            [kind |-> "TypeError", type |-> "None", dict |-> <<>>,
             msg |-> IF Len(errors) = 0
                     THEN <<"Type union", "did not contain any sub types of type TypedArgs">>
                     ELSE <<"Validation failed against all sub types of union type">>
                          \o errors]
        finish(out) == IF out.returned.kind = "instance" THEN out.returned
                       ELSE raise(out.errors)
    IN  finish(loop[1])

\* no parse_args call made yet
NotParsed == [called |-> FALSE, raw_args |-> <<>>, result |-> NoResult]

(***************************************************************************)
(* Sub-command declarations (SubParser, SubParserGroup)                    *)
(***************************************************************************)
\* a TypedArgs type used as ArgsOrGroup
ArgsOf(type) ==
    [kind |-> "args", type |-> type, subs |-> <<>>, common |-> "None",
     required |-> TRUE]

\* SubParserGroup(*subparsers, common_args=..., required=...)
SubParserGroup(subparsers, common_args, required) ==
    [kind |-> "group", type |-> "None", subs |-> subparsers,
     common |-> common_args, required |-> required]

\* SubParser(name, args_or_group, aliases=...); aliases=None is <<>>
SubParser(name, args_or_group, aliases) ==
    [name |-> name, child |-> args_or_group, aliases |-> aliases]

(***************************************************************************)
(* Type mapping (parser.py, _traverse_get_type_mapping)                    *)
(***************************************************************************)
NoConflict == [kind |-> "none", path |-> <<>>, new |-> "None", old |-> "None"]

\* the leaf branch of traverse: register arg_type or raise SubParserConflict
RegisterLeafOverwrite(st, arg_type, current_path) ==
    [st EXCEPT !.mapping = DictSet(@, current_path, arg_type)]

RegisterLeaf(st, arg_type, current_path) ==
    IF DictHas(st.mapping, current_path)
    THEN [st EXCEPT !.error =
             [kind |-> "SubParserConflict", path |-> current_path,
              new |-> arg_type, old |-> DictGet(st.mapping, current_path)]]
    ELSE [st EXCEPT !.mapping = DictSet(@, current_path, arg_type)]

\* st = [mapping, error]; a raised SubParserConflict ends the traversal
RECURSIVE traverse(_, _, _), traverse_decls(_, _, _, _), traverse_aliases(_, _, _, _)
traverse(st, args_or_group, current_path) ==
    IF st.error.kind # "none" THEN st
    ELSE IF args_or_group.kind = "group"
    THEN LET st1 == IF args_or_group.common # "None" /\ ~args_or_group.required
                    THEN [st EXCEPT !.mapping =
                             DictSet(@, current_path, args_or_group.common)]
                    ELSE st
         IN  traverse_decls(st1, args_or_group.subs, 1, current_path)
    ELSE RegisterLeaf(st, args_or_group.type, current_path)

traverse_decls(st, subparser_decls, i, current_path) ==
    IF i > Len(subparser_decls) \/ st.error.kind # "none" THEN st
    ELSE LET subparser_decl == subparser_decls[i]
             st1 == traverse(st, subparser_decl.child,
                             Append(current_path, PyStr(subparser_decl.name)))
             st2 == traverse_aliases(st1, subparser_decl, 1, current_path)
         IN  traverse_decls(st2, subparser_decls, i + 1, current_path)

traverse_aliases(st, subparser_decl, j, current_path) ==
    IF j > Len(subparser_decl.aliases) \/ st.error.kind # "none" THEN st
    ELSE traverse_aliases(
             traverse(st, subparser_decl.child,
                      Append(current_path, PyStr(subparser_decl.aliases[j]))),
             subparser_decl, j + 1, current_path)

\* [mapping, error]
_traverse_get_type_mapping(args_or_group) ==
    traverse([mapping |-> <<>>, error |-> NoConflict], args_or_group, <<>>)

(***************************************************************************)
(* The native parser built by _traverse_build_parser                       *)
(***************************************************************************)
\* make_arg(): arg() with no flags and no keyword; None is PyNone, a thunk is
\* <<the value it returns>> and no thunk is <<>>
make_arg ==
    [flags |-> <<>>, positional |-> FALSE, default |-> PyNone,
     dynamic_default |-> <<>>, dynamic_choices |-> <<>>, type |-> "None",
     nargs |-> "None"]

\* Arg.has_default
has_default(arg) == arg.default # PyNone \/ arg.dynamic_default # <<>>

\* Arg.nargs_with_default
nargs_with_default(arg) == IF arg.nargs # "None" THEN arg.nargs ELSE "*"

\* Arg.resolve_default, for an Arg that has a default; the copy of a value is
\* the value (the identity of list objects is the subject of SpecDyn)
resolve_default(arg) ==
    IF arg.default # PyNone THEN arg.default ELSE arg.dynamic_default[1]

\* the Arg of a field: getattr(arg_type, attr_name) finds the arg(default=...)
\* of the nearest class that gives the field one; a field without gets
\* make_arg()
RECURSIVE FieldArg(_, _)
FieldArg(cls, name) ==
    IF cls = "TypedArgs" THEN make_arg
    ELSE IF DictHas(OwnArgDefaults[cls], name)
    THEN [make_arg EXCEPT !.default = DictGet(OwnArgDefaults[cls], name)]
    ELSE FieldArg(Base[cls], name)

\* str.replace("_", "-"), character by character
Replace(chars) ==
    [i \in 1..Len(chars) |-> IF chars[i] = "_" THEN "-" ELSE chars[i]]

\* str.startswith
StartsWith(chars, prefix) ==
    Len(prefix) <= Len(chars) /\ SubSeq(chars, 1, Len(prefix)) = prefix

\* a _build_add_argument_args that marks every field without default as
\* required, Optional and positional ones included
is_required_unless_defaulted(is_bool, is_optional, arg) ==
    ~has_default(arg)

\* "Determine is_required" of _build_add_argument_args
is_required(is_bool, is_optional, arg) ==
    IF is_bool THEN FALSE
    ELSE ~(is_optional \/ has_default(arg))

\* a name handling that adds the long name whenever all flags are short
name_or_flags_always_long(python_arg_name, arg) ==
    LET cli_arg_name == Replace(Chars[python_arg_name])
        flags == [i \in 1..Len(arg.flags) |-> Chars[arg.flags[i]]]
    IN  IF arg.positional THEN <<cli_arg_name>>
        ELSE IF Len(arg.flags) > 0
        THEN flags \o (IF \A i \in 1..Len(flags) : Len(flags[i]) = 2
                       THEN << <<"-", "-">> \o cli_arg_name >> ELSE <<>>)
        ELSE << <<"-", "-">> \o cli_arg_name >>

\* "Name handling" of _build_add_argument_args: the names or flags of the
\* argument, as sequences of characters
name_or_flags(python_arg_name, arg) ==
    LET cli_arg_name == Replace(Chars[python_arg_name])
        flags == [i \in 1..Len(arg.flags) |-> Chars[arg.flags[i]]]
    IN  IF arg.positional THEN <<cli_arg_name>>
        ELSE IF Len(arg.flags) > 0
        THEN flags \o (IF (\A i \in 1..Len(flags) : Len(flags[i]) = 2)
                          /\ Len(Chars[python_arg_name]) > 1
                       THEN << <<"-", "-">> \o cli_arg_name >> ELSE <<>>)
        ELSE << <<"-", "-">> \o cli_arg_name >>

\* a value handling that gives a bool field the type and the choices of its Arg
value_handling_typed_bool(is_bool, annotation, arg) ==
    [action |-> IF is_bool
                THEN (IF has_default(arg) /\ resolve_default(arg) = PyBool(TRUE)
                      THEN "store_false" ELSE "store_true")
                ELSE "store",
     type |-> IF arg.type # "None"
              THEN [kind |-> "type", raw |-> arg.type, allowed_values |-> <<>>]
              ELSE get_underlying_type_converter(annotation),
     choices |-> arg.dynamic_choices]

\* "Value handling" of _build_add_argument_args: action, type and choices
value_handling(is_bool, annotation, arg) ==
    [action |-> IF is_bool
                THEN (IF has_default(arg) /\ resolve_default(arg) = PyBool(TRUE)
                      THEN "store_false" ELSE "store_true")
                ELSE "store",
     type |-> IF is_bool
              THEN [kind |-> "None", raw |-> "None", allowed_values |-> <<>>]
              ELSE IF arg.type # "None"
              THEN [kind |-> "type", raw |-> arg.type, allowed_values |-> <<>>]
              ELSE get_underlying_type_converter(annotation),
     choices |-> IF is_bool THEN <<>>
                 ELSE IF arg.dynamic_choices # <<>> THEN arg.dynamic_choices
                 ELSE IF get_allowed_values_if_enum(annotation) # <<>>
                 THEN get_allowed_values_if_enum(annotation)
                 ELSE get_allowed_values_if_literal(annotation)]

\* _build_add_argument_args: the names or flags and the keywords of the
\* add_argument call, or the error raised.  A keyword that is not passed is
\* "None" (dest, nargs, type), <<>> (choices) or FALSE (required); default is
\* what the native argument starts from: the resolved default, None, or the
\* opposite of what a switch stores.
_build_add_argument_args(python_arg_name, annotation, arg) ==
    LET underlying_if_optional == get_underlying_if_optional(annotation)
        is_optional == underlying_if_optional # <<>>
        unwrapped == IF is_optional THEN underlying_if_optional[1] ELSE annotation
        underlying_if_list == get_underlying_if_list(unwrapped)
        is_collection == underlying_if_list # <<>>
        inner == IF is_collection THEN underlying_if_list[1] ELSE unwrapped
        is_bool == inner.origin = "None" /\ inner.raw = "bool"
        value == value_handling(is_bool, inner, arg)
    IN  [error |->
             IF is_collection /\ nargs_with_default(arg) = "+" /\ is_optional
             THEN <<"AssertionError", "An argument with nargs='+' must not be optional">>
             ELSE IF is_bool /\ has_default(arg)
                     /\ resolve_default(arg) \notin {PyBool(TRUE), PyBool(FALSE)}
             THEN <<"RuntimeError", "Invalid default for bool", resolve_default(arg)>>
             ELSE IF ~arg.positional
                     /\ \E i \in 1..Len(arg.flags) :
                           ~StartsWith(Chars[arg.flags[i]], <<"-">>)
             THEN <<"ValueError", "Invalid flags", arg.flags>>
             ELSE NoError,
         name_or_flags |-> name_or_flags(python_arg_name, arg),
         dest |-> IF arg.positional THEN "None" ELSE python_arg_name,
         required |-> is_required(is_bool, is_optional, arg) /\ ~arg.positional,
         action |-> value.action,
         type |-> value.type,
         choices |-> value.choices,
         nargs |-> IF is_collection THEN nargs_with_default(arg)
                   ELSE IF ~is_bool /\ has_default(arg) /\ arg.positional THEN "?"
                   ELSE "None",
         default |-> IF is_bool THEN PyBool(value.action = "store_false")
                     ELSE IF has_default(arg) THEN resolve_default(arg)
                     ELSE PyNone]

\* _add_arguments: the actions added to one native parser
RECURSIVE AddArgumentsFrom(_, _, _, _)
AddArgumentsFrom(arg_type, annotations, i, parent_annotations) ==
    IF i > Len(annotations) THEN <<>>
    ELSE (IF annotations[i][1] \in parent_annotations THEN <<>>
          ELSE <<_build_add_argument_args(annotations[i][1], annotations[i][2],
                                          FieldArg(arg_type, annotations[i][1]))>>)
         \o AddArgumentsFrom(arg_type, annotations, i + 1, parent_annotations)

\* _add_arguments that registers the inherited fields again
_add_arguments_with_inherited(arg_type, parent_annotations) ==
    AddArgumentsFrom(arg_type, collect_type_annotations(arg_type), 1, {})

_add_arguments(arg_type, parent_annotations) ==
    AddArgumentsFrom(arg_type, collect_type_annotations(arg_type), 1,
                     parent_annotations)

\* "<" + (n * "sub-") + "command>"
SubCommandDest(n) ==
    CASE n = 1 -> "<sub-command>"
      [] n = 2 -> "<sub-sub-command>"
      [] n = 3 -> "<sub-sub-sub-command>"
      [] OTHER -> "<sub-sub-sub-sub-command>"

NoNativeError == [kind |-> "none", name |-> "None"]

EmptyNative ==
    [actions |-> <<>>, has_sub |-> FALSE, dest |-> "None", required |-> FALSE,
     name_parser_map |-> <<>>]

\* argparse add_parser's check of the name and the aliases against the names
\* registered so far; newer argparse versions raise ArgumentError, older
\* versions register the parser over the existing one
AddParserConflict(map, name, aliases, checks_conflicts) ==
    IF ~checks_conflicts THEN NoNativeError
    ELSE IF DictHas(map, name)
    THEN [kind |-> "ArgumentError", name |-> name]
    ELSE IF \E j \in 1..Len(aliases) : DictHas(map, aliases[j])
    THEN [kind |-> "ArgumentError",
          name |-> aliases[CHOOSE j \in 1..Len(aliases) :
                             /\ DictHas(map, aliases[j])
                             /\ \A k \in 1..(j-1) : ~DictHas(map, aliases[k])]]
    ELSE NoNativeError

RECURSIVE RegisterNames(_, _, _)
RegisterNames(map, names, sub) ==
    IF names = <<>> THEN map
    ELSE RegisterNames(DictSet(map, names[1], sub), Tail(names), sub)

\* the dest path of a group is recorded only for a required group
GroupDestPathsIfRequired(group, cur_dest_path, all_leaf_dest_paths) ==
    IF group.common # "None" /\ group.required
    THEN all_leaf_dest_paths \cup {cur_dest_path}
    ELSE all_leaf_dest_paths

\* the dest path of a non-required group with common_args is a leaf dest path
GroupDestPaths(group, cur_dest_path, all_leaf_dest_paths) ==
    IF group.common # "None" /\ ~group.required
    THEN all_leaf_dest_paths \cup {cur_dest_path}
    ELSE all_leaf_dest_paths

\* the names of the common_args of the group and of every group below it
RECURSIVE CommonNamesBelow(_)
CommonNamesBelow(t) ==
    IF t.kind # "group" THEN {}
    ELSE (IF t.common # "None"
          THEN SeqToSet(DictKeys(collect_type_annotations(t.common))) ELSE {})
         \cup UNION {CommonNamesBelow(t.subs[i].child) : i \in 1..Len(t.subs)}

\* parent annotations that are shared by all branches: what a group below adds
\* is seen by the other sub-commands of this group
parent_annotations_shared(group, parent_annotations) ==
    parent_annotations \cup CommonNamesBelow(group)

\* parent_annotations.copy() and .update(...) of _traverse_build_parser: the
\* names the sub-commands of the group take as registered, which are those of
\* the caller and of the common_args of the group
parent_annotations_update(group, parent_annotations) ==
    IF group.common # "None"
    THEN parent_annotations \cup
         SeqToSet(DictKeys(collect_type_annotations(group.common)))
    ELSE parent_annotations

\* b = [native, paths, error]: the native parser of this level, the leaf dest
\* paths collected so far, the ArgumentError raised
RECURSIVE _traverse_build_parser(_, _, _, _, _), build_decls(_, _, _, _, _, _)
_traverse_build_parser(args_or_group, cur_dest_path, parent_annotations, all_leaf_dest_paths, checks_conflicts) ==
    IF args_or_group.kind = "group"
    THEN LET group == args_or_group
             has_common == group.common # "None"
             actions == IF has_common
                        THEN _add_arguments(group.common, parent_annotations)
                        ELSE <<>>
             paths1 == GroupDestPaths(group, cur_dest_path, all_leaf_dest_paths)
             annotations1 == parent_annotations_update(group, parent_annotations)
             dest == SubCommandDest(Len(cur_dest_path) + 1)
             native == [actions |-> actions, has_sub |-> TRUE, dest |-> dest,
                        required |-> group.required, name_parser_map |-> <<>>]
         IN  build_decls([native |-> native, paths |-> paths1,
                          error |-> NoNativeError],
                         group.subs, 1, Append(cur_dest_path, dest),
                         annotations1, checks_conflicts)
    ELSE [native |-> [EmptyNative EXCEPT !.actions =
                         _add_arguments(args_or_group.type, parent_annotations)],
          paths |-> all_leaf_dest_paths \cup {cur_dest_path},
          error |-> NoNativeError]

build_decls(b, decls, i, sub_dest_path, parent_annotations, checks_conflicts) ==
    IF i > Len(decls) \/ b.error.kind # "none" THEN b
    ELSE LET decl == decls[i]
             conflict == AddParserConflict(b.native.name_parser_map, decl.name,
                                           decl.aliases, checks_conflicts)
             sub == _traverse_build_parser(decl.child, sub_dest_path,
                        parent_annotations, b.paths, checks_conflicts)
         IN  IF conflict.kind # "none"
             THEN [b EXCEPT !.error = conflict]
             ELSE IF sub.error.kind # "none"
             THEN [b EXCEPT !.error = sub.error]
             ELSE build_decls(
                      [native |-> [b.native EXCEPT !.name_parser_map =
                                      RegisterNames(@, <<decl.name>> \o decl.aliases,
                                                    sub.native)],
                       paths |-> sub.paths,
                       error |-> NoNativeError],
                      decls, i + 1, sub_dest_path, parent_annotations,
                      checks_conflicts)

(***************************************************************************)
(* Parser.__init__                                                         *)
(***************************************************************************)
NoParser ==
    [state |-> "none", args_or_group |-> ArgsOf("None"), type_mapping |-> <<>>,
     all_leaf_dest_paths |-> {}, argparse_parser |-> EmptyNative,
     native_built |-> FALSE, error |-> NoConflict, native_error |-> NoNativeError]

\* the Parser object, or the exception its constructor raised
ParserInit(args_or_group, checks_conflicts) ==
    LET tm == _traverse_get_type_mapping(args_or_group)
        b == _traverse_build_parser(args_or_group, <<>>, {}, {}, checks_conflicts)
    IN  IF tm.error.kind # "none"
        THEN [NoParser EXCEPT !.state = "raised", !.args_or_group = args_or_group,
                              !.error = tm.error]
        ELSE IF b.error.kind # "none"
        THEN [NoParser EXCEPT !.state = "raised", !.args_or_group = args_or_group,
                              !.type_mapping = tm.mapping, !.native_built = TRUE,
                              !.native_error = b.error]
        ELSE [state |-> "ready", args_or_group |-> args_or_group,
              type_mapping |-> tm.mapping, all_leaf_dest_paths |-> b.paths,
              argparse_parser |-> b.native, native_built |-> TRUE,
              error |-> NoConflict, native_error |-> NoNativeError]

(***************************************************************************)
(* The native parser's parse_args                                          *)
(***************************************************************************)
\* a command-line token: a sub-command name, a value-less flag "--<dest>" or a
\* flag with its value "--<dest>=<value>"
NameToken(name) == [kind |-> "name", dest |-> "None", value |-> name]
SwitchToken(dest) == [kind |-> "switch", dest |-> dest, value |-> "None"]
OptionToken(dest, value) == [kind |-> "option", dest |-> dest, value |-> value]

ActionDests(native) == {native.actions[i].dest : i \in 1..Len(native.actions)}

ActionFor(native, dest) ==
    native.actions[CHOOSE i \in 1..Len(native.actions) :
                      native.actions[i].dest = dest]

\* the namespace a parser starts from: the default of every action, and None
\* for the sub-command destination
NativeDefaults(native) ==
    [d \in ActionDests(native) \cup (IF native.has_sub THEN {native.dest} ELSE {})
        |-> IF d \in ActionDests(native) THEN ActionFor(native, d).default
            ELSE PyNone]

\* the namespace with the attributes of sub set over it
MergeNamespace(ns, sub) ==
    [d \in DOMAIN ns \cup DOMAIN sub |-> IF d \in DOMAIN sub THEN sub[d] ELSE ns[d]]

\* r = [ok, ns, seen]: parse_known_args of one parser on argv[i..]; a token the
\* parser does not know, an invalid sub-command, or a missing required argument
\* ends in the native error exit (ok = FALSE)
RECURSIVE NativeConsume(_, _, _, _), NativeParseKnown(_, _)
NativeConsume(native, argv, i, r) ==
    IF i > Len(argv) \/ ~r.ok THEN r
    ELSE LET tok == argv[i] IN
         IF tok.kind = "name"
         THEN IF native.has_sub /\ DictHas(native.name_parser_map, tok.value)
              THEN LET sub == NativeParseKnown(
                                  DictGet(native.name_parser_map, tok.value),
                                  SubSeq(argv, i + 1, Len(argv)))
                   IN  [ok |-> sub.ok,
                        ns |-> MergeNamespace(
                                   [r.ns EXCEPT ![native.dest] = PyStr(tok.value)],
                                   sub.ns),
                        seen |-> r.seen \cup {native.dest}]
              ELSE [r EXCEPT !.ok = FALSE]
         ELSE IF tok.dest \notin ActionDests(native)
         THEN [r EXCEPT !.ok = FALSE]
         ELSE LET action == ActionFor(native, tok.dest) IN
              IF tok.kind = "switch" /\ action.action = "store_true"
              THEN NativeConsume(native, argv, i + 1,
                       [r EXCEPT !.ns[tok.dest] = PyBool(TRUE),
                                 !.seen = @ \cup {tok.dest}])
              ELSE IF tok.kind = "switch" /\ action.action = "store_false"
              THEN NativeConsume(native, argv, i + 1,
                       [r EXCEPT !.ns[tok.dest] = PyBool(FALSE),
                                 !.seen = @ \cup {tok.dest}])
              ELSE IF tok.kind = "option" /\ action.action = "store"
              THEN NativeConsume(native, argv, i + 1,
                       [r EXCEPT !.ns[tok.dest] = PyStr(tok.value),
                                 !.seen = @ \cup {tok.dest}])
              ELSE [r EXCEPT !.ok = FALSE]

NativeParseKnown(native, argv) ==
    LET r == NativeConsume(native, argv, 1,
                 [ok |-> TRUE, ns |-> NativeDefaults(native), seen |-> {}])
        required == {d \in ActionDests(native) : ActionFor(native, d).required}
                    \cup (IF native.has_sub /\ native.required
                          THEN {native.dest} ELSE {})
    IN  IF r.ok /\ ~(required \subseteq r.seen)
        THEN [r EXCEPT !.ok = FALSE]
        ELSE r

\* ArgumentParser.parse_args: [ok, ns]
NativeParseArgs(native, argv) ==
    LET r == NativeParseKnown(native, argv)
    IN  [ok |-> r.ok, ns |-> IF r.ok THEN r.ns ELSE <<>>]

\* ArgumentParser._parse_optional for the parser of one added argument: the
\* string is an argument ("A"), the option of the parser, by one of its option
\* strings or by an unambiguous prefix of one ("O"), or no option of the parser
_parse_optional(added, arg_string) ==
    LET chars == Chars[arg_string]
        option_strings == {o \in SeqToSet(added.name_or_flags) : StartsWith(o, <<"-">>)}
        abbreviated == {o \in option_strings : StartsWith(o, chars)}
    IN  IF ~StartsWith(chars, <<"-">>) THEN "A"
        ELSE IF chars \in option_strings THEN "O"
        ELSE IF Cardinality(abbreviated) = 1 THEN "O"
        ELSE IF Cardinality(abbreviated) > 1 THEN "ambiguous"
        ELSE "unknown"

\* ArgumentParser._get_value: the type of the argument applied to the string
_get_value(added, arg_string) ==
    IF added.type.kind = "enum"
    THEN _create_enum_type_converter(added.type.allowed_values, PyStr(arg_string))
    ELSE IF added.type.kind = "literal"
    THEN _create_literal_type_converter(added.type.allowed_values, PyStr(arg_string))
    ELSE PyStr(arg_string)

\* ArgumentParser._check_value: the value is among the choices, if any
_check_value(added, value) ==
    added.choices # <<>> =>
        \E i \in 1..Len(added.choices[1]) : PyEq(added.choices[1][i], value)

\* the number of argument strings that follow argv[i]
ArgStringsAfter(added, argv, i) ==
    CHOOSE n \in 0..(Len(argv) - i) :
        /\ \A j \in 1..n : _parse_optional(added, argv[i + j]) = "A"
        /\ (i + n = Len(argv) \/ _parse_optional(added, argv[i + n + 1]) # "A")

\* consume_optional, from argv[i] on, for a parser whose one argument is an
\* option; r = [ok, seen, value].  A string that is no option of the parser, an
\* option without the argument strings its nargs asks for and a value that is
\* not among the choices end in the native error exit.
RECURSIVE consume_optional(_, _, _, _)
consume_optional(added, argv, i, r) ==
    IF i > Len(argv) \/ ~r.ok THEN r
    ELSE IF _parse_optional(added, argv[i]) # "O" THEN [r EXCEPT !.ok = FALSE]
    ELSE IF added.action = "store_true"
    THEN consume_optional(added, argv, i + 1,
             [r EXCEPT !.seen = TRUE, !.value = PyBool(TRUE)])
    ELSE IF added.action = "store_false"
    THEN consume_optional(added, argv, i + 1,
             [r EXCEPT !.seen = TRUE, !.value = PyBool(FALSE)])
    ELSE LET following == ArgStringsAfter(added, argv, i)
             taken == IF added.nargs = "None" THEN 1 ELSE following
             values == [j \in 1..taken |-> _get_value(added, argv[i + j])]
         IN  IF following < 1 /\ added.nargs \in {"None", "+"}
             THEN [r EXCEPT !.ok = FALSE]
             ELSE IF \E j \in 1..taken : ~_check_value(added, values[j])
             THEN [r EXCEPT !.ok = FALSE]
             ELSE consume_optional(added, argv, i + 1 + taken,
                      [r EXCEPT !.seen = TRUE,
                                !.value = IF added.nargs = "None" THEN values[1]
                                          ELSE PyList(values)])

\* consume_positionals for a parser whose one argument is positional: every
\* string that starts with "-" is an unknown option, the argument strings must
\* be as many as nargs asks for; [ok, seen, value]
consume_positionals(added, argv) ==
    LET n == Len(argv)
        values == [j \in 1..n |-> _get_value(added, argv[j])]
        fail == [ok |-> FALSE, seen |-> FALSE, value |-> PyNone]
        take(value) == [ok |-> TRUE, seen |-> TRUE, value |-> value]
    IN  IF \E j \in 1..n : _parse_optional(added, argv[j]) # "A" THEN fail
        ELSE IF \E j \in 1..n : ~_check_value(added, values[j]) THEN fail
        ELSE IF added.nargs = "None"
        THEN (IF n = 1 THEN take(values[1]) ELSE fail)
        ELSE IF added.nargs = "?"
        THEN (IF n = 1 THEN take(values[1])
              ELSE IF n > 1 THEN fail
              ELSE IF added.default.t = "str" /\ ~_check_value(added, added.default)
              THEN fail
              ELSE take(added.default))
        ELSE IF added.nargs = "+"
        THEN (IF n >= 1 THEN take(PyList(values)) ELSE fail)
        ELSE IF n = 0 /\ added.default # PyNone THEN take(added.default)
        ELSE take(PyList(values))

\* ArgumentParser.parse_args of a parser with one added argument: [ok, value],
\* value being the attribute of the namespace
FieldParseArgs(added, argv) ==
    LET finish(r) ==
            IF r.ok /\ added.required /\ ~r.seen
            THEN [ok |-> FALSE, value |-> PyNone]
            ELSE [ok |-> r.ok, value |-> IF r.ok THEN r.value ELSE PyNone]
    IN  IF StartsWith(added.name_or_flags[1], <<"-">>)
        THEN finish(consume_optional(added, argv, 1,
                        [ok |-> TRUE, seen |-> FALSE, value |-> added.default]))
        ELSE finish(consume_positionals(added, argv))

\* the dest paths from shorter to longer
RECURSIVE ShortestFirstDestPaths(_)
ShortestFirstDestPaths(paths) ==
    IF paths = {} THEN <<>>
    ELSE LET shortest == CHOOSE p \in paths : \A q \in paths : Len(p) <= Len(q)
         IN  <<shortest>> \o ShortestFirstDestPaths(paths \ {shortest})

(***************************************************************************)
(* Parser.parse_args (parser.py)                                           *)
(***************************************************************************)
\* the dest paths sorted from longer to shorter; the dest path of a depth is
\* unique, so the order is determined
RECURSIVE SortedDestPaths(_)
SortedDestPaths(paths) ==
    IF paths = {} THEN <<>>
    ELSE LET longest == CHOOSE p \in paths : \A q \in paths : Len(q) <= Len(p)
         IN  <<longest>> \o SortedDestPaths(paths \ {longest})

\* the loop of _determine_arg_type over the sorted dest paths: the type name,
\* or "None"
RECURSIVE DetermineLoop(_, _, _, _)
DetermineLoop(sorted_dest_paths, i, argparse_namespace, type_mapping) ==
    IF i > Len(sorted_dest_paths) THEN "None"
    ELSE LET dest_path == sorted_dest_paths[i]
             has_attrs == \A k \in 1..Len(dest_path) :
                              dest_path[k] \in DOMAIN argparse_namespace
             value_path == [k \in 1..Len(dest_path) |->
                               argparse_namespace[dest_path[k]]]
         IN  IF has_attrs /\ DictHas(type_mapping, value_path)
             THEN DictGet(type_mapping, value_path)
             ELSE DetermineLoop(sorted_dest_paths, i + 1, argparse_namespace,
                                type_mapping)

_determine_arg_type(all_leaf_dest_paths, argparse_namespace, type_mapping) ==
    DetermineLoop(SortedDestPaths(all_leaf_dest_paths), 1, argparse_namespace,
                  type_mapping)

\* Parser.parse_args: the instance, the TypeError of the materializer, or the
\* exit of the process (by the native parser, or because no type was found)
ParseArgs(p, raw_args) ==
    LET native == NativeParseArgs(p.argparse_parser, raw_args)
        arg_type == _determine_arg_type(p.all_leaf_dest_paths, native.ns,
                                        p.type_mapping)
    IN  IF ~native.ok
        THEN [NoResult EXCEPT !.kind = "exit", !.msg = <<"native parser error">>]
        ELSE IF arg_type = "None"
        THEN [NoResult EXCEPT !.kind = "exit",
                 !.msg = <<"Failed to extract argument type from namespace object">>]
        ELSE from_argparse(arg_type, native.ns, FALSE)

(***************************************************************************)
(* Bindings and App (parser.py)                                            *)
(***************************************************************************)
\* Binding(arg_type, func); a handler function is known by its name
Binding(arg_type, func) == [arg_type |-> arg_type, func |-> func]

\* one entry of the record of calls made during App.run
Event(ev, func, arg) == [ev |-> ev, func |-> func, arg |-> arg]

\* no App: nothing bound, nothing run
NoApp ==
    [call |-> "none", state |-> "none", bindings |-> <<>>, lazy |-> FALSE,
     error |-> NoError, pc |-> "idle", typed_args |-> NoResult,
     resolved |-> <<>>, log |-> <<>>, outcome |-> "none"]

\* issubclass over the declared record types
RECURSIVE IsSubclassOfArgs(_, _)
IsSubclassOfArgs(sub, sup) ==
    \/ sub = sup
    \/ sub \in DOMAIN Base /\ IsSubclassOfArgs(Base[sub], sup)

\* the first type of the mapping's values, in order, that is not offered
RECURSIVE FirstNotOffered(_, _, _)
FirstNotOffered(types, i, offered_bindings) ==
    IF i > Len(types) THEN "None"
    ELSE IF types[i] \notin offered_bindings THEN types[i]
    ELSE FirstNotOffered(types, i + 1, offered_bindings)

IncompleteBindings(arg_type) ==
    <<"Incomplete bindings: There is no binding for type", arg_type>>

\* verify that counts a binding for a derived type as a binding for its base
verify_by_subclass(p, bindings) ==
    LET offered_bindings ==
            {c \in Classes : \E i \in 1..Len(bindings) :
                                IsSubclassOfArgs(bindings[i].arg_type, c)}
        missing == FirstNotOffered(DictValues(p.type_mapping), 1, offered_bindings)
    IN  IF missing = "None" THEN NoError ELSE IncompleteBindings(missing)

\* verify that is content with a binding for any one type of the mapping
verify_any_type(p, bindings) ==
    LET offered_bindings == {bindings[i].arg_type : i \in 1..Len(bindings)}
        types == DictValues(p.type_mapping)
    IN  IF types = <<>> \/ \E i \in 1..Len(types) : types[i] \in offered_bindings
        THEN NoError ELSE IncompleteBindings(types[1])

\* Parser.verify: NoError, or the message of the ValueError it raises
verify(p, bindings) ==
    LET offered_bindings == {bindings[i].arg_type : i \in 1..Len(bindings)}
        missing == FirstNotOffered(DictValues(p.type_mapping), 1, offered_bindings)
    IN  IF missing = "None" THEN NoError ELSE IncompleteBindings(missing)

\* Parser.bind: the App, unless verify raised
bind(p, bindings) ==
    LET error == verify(p, bindings)
    IN  [NoApp EXCEPT !.call = "bind", !.bindings = bindings, !.error = error,
                      !.state = IF error = NoError THEN "bound" ELSE "raised"]

\* Parser.bind_lazy: the App around the generator, which is not called
bind_lazy(p, lazy_bindings) ==
    [NoApp EXCEPT !.call = "bind_lazy", !.bindings = lazy_bindings,
                  !.lazy = TRUE, !.state = "bound"]

\* App.run, first statement: parse_args; an exit or an exception ends the run
run_parse(p, a, raw_args) ==
    LET typed_args == ParseArgs(p, raw_args)
        a1 == [a EXCEPT !.log = Append(@, Event("parse_args", "None", NoResult)),
                        !.typed_args = typed_args]
    IN  CASE typed_args.kind = "exit" ->
                [a1 EXCEPT !.pc = "done", !.outcome = "SystemExit"]
          [] typed_args.kind = "TypeError" ->
                [a1 EXCEPT !.pc = "done", !.outcome = "TypeError"]
          [] OTHER -> [a1 EXCEPT !.pc = "parsed"]

\* App.run: resolve possibly lazy bindings
run_resolve(a) ==
    [a EXCEPT !.pc = "resolved", !.resolved = a.bindings,
              !.log = IF a.lazy
                      THEN Append(@, Event("generator", "None", NoResult))
                      ELSE @]

\* the first position from i on whose binding matches, 0 if none
RECURSIVE FirstBinding(_, _)
FirstBinding(matches, i) ==
    IF i > Len(matches) THEN 0
    ELSE IF matches[i] THEN i
    ELSE FirstBinding(matches, i + 1)

\* the result of the dispatch loop over the bindings
Dispatched(a, i) ==
    IF i = 0
    THEN [a EXCEPT !.pc = "done", !.outcome = "AssertionError"]
    ELSE [a EXCEPT !.pc = "done", !.outcome = "returned",
                   !.log = Append(@, Event("handler", a.resolved[i].func,
                                           a.typed_args))]

\* dispatch by isinstance
run_dispatch_isinstance(a) ==
    LET matches == [i \in 1..Len(a.resolved) |->
                       IsSubclassOfArgs(a.typed_args.type, a.resolved[i].arg_type)]
    IN  Dispatched(a, FirstBinding(matches, 1))

\* App.run: identify the binding to execute by exact type and call it
run_dispatch(a) ==
    LET matches == [i \in 1..Len(a.resolved) |->
                       a.typed_args.type = a.resolved[i].arg_type]
    IN  Dispatched(a, FirstBinding(matches, 1))

\* the verification of App.run, with the log entry it leaves
Verified(p, a) ==
    LET error == verify(p, a.resolved)
        a1 == [a EXCEPT !.log = Append(@, Event("verify", "None", NoResult))]
    IN  IF error = NoError
        THEN [a1 EXCEPT !.pc = "verified"]
        ELSE [a1 EXCEPT !.pc = "done", !.outcome = "ValueError", !.error = error]

\* verification that lets the dispatch loop run first
run_verify_after_dispatch(p, a) ==
    LET d == run_dispatch(a)
        v == Verified(p, d)
    IN  IF v.pc = "verified" THEN d ELSE v

\* App.run: verify bindings
run_verify(p, a) == Verified(p, a)

(***************************************************************************)
(* Declaration trees given to the constructor                              *)
(***************************************************************************)
\* the number of SubParser declarations in a tree
MaxDecls == 2

LeafTypes == {"FooArgs", "BarArgs"}

\* common_args and required of a group: the traversals distinguish a group that
\* registers its common_args (non-required, with common_args) from one that
\* does not
GroupOptions == {<<"None", TRUE>>, <<"CommonArgs", FALSE>>}

\* name and aliases of a SubParser declaration
DeclLabels ==
    {<<"foo", <<>>>>, <<"same", <<>>>>, <<"bar", <<"same">>>>,
     <<"baz", <<"same">>>>}

\* BySize[n + 1]: the declaration lists with exactly n declarations in total
\* and the trees with exactly n declarations; table holds the smaller sizes
RECURSIVE BuildBySize(_, _)
BuildBySize(table, n) ==
    IF n > MaxDecls THEN table
    ELSE LET seqs == IF n = 0 THEN {<<>>}
                     ELSE UNION {
                             {<<SubParser(l[1], child, l[2])>> \o rest :
                                 l \in DeclLabels, child \in table[k].trees,
                                 rest \in table[n - k + 1].seqs} :
                             k \in 1..n}
             groups == {SubParserGroup(subs, g[1], g[2]) :
                           subs \in seqs, g \in GroupOptions}
             trees == IF n = 0 THEN groups \cup {ArgsOf(t) : t \in LeafTypes}
                      ELSE groups
         IN  BuildBySize(Append(table, [seqs |-> seqs, trees |-> trees]), n + 1)

BySize == BuildBySize(<<>>, 0)

Trees == UNION {BySize[k].trees : k \in 1..Len(BySize)}

(***************************************************************************)
(* The components at rest                                                  *)
(***************************************************************************)
\* no validate call made, no shape asked for
ValIdle ==
    [annotation |-> Scalar("NoneType"), value |-> PyNone, token |-> PyNone,
     converted |-> FALSE, rejected |-> FALSE, called |-> FALSE,
     result |-> <<PyNone, NoError>>,
     inspected |-> FALSE, if_list |-> <<>>, if_optional_if_list |-> <<>>]

\* no instance built, no attribute read, no comparison made; a side is
\* [how, args, obj]: how it was built, from which raw values, and what it is
CmpIdle ==
    LET none == [how |-> "none", args |-> <<>>, obj |-> NoResult]
    IN  [left |-> none, right |-> none, read |-> <<>>, compared |-> FALSE,
         eq |-> FALSE, ne |-> FALSE]

\* no validation against a union of record types made
UniIdle ==
    [type_union |-> Scalar("NoneType"), args |-> <<>>, called |-> FALSE,
     result |-> NoResult]

\* no field declared, no parser built for it, nothing parsed
FldIdle ==
    [state |-> "none", name |-> "None", annotation |-> Scalar("NoneType"),
     arg |-> make_arg, added |-> <<>>, argv |-> <<>>,
     result |-> [kind |-> "none", value |-> PyNone]]

\* no record type with defaults declared: no list object exists, no parser
\* was built, nothing was parsed, no thunk was invoked
DynIdle ==
    [annotation |-> Scalar("NoneType"), heap |-> <<>>, declared |-> <<>>,
     parsers |-> <<>>, instances |-> <<>>, default_calls |-> 0,
     choices_calls |-> 0, appends |-> 0]

(***************************************************************************)
(* Materialization of raw values                                           *)
(***************************************************************************)
RawValues == {PyStr("a"), PyInt("42"), PyBool(TRUE), PyNone}

\* the record types that are materialized from raw namespaces
MatClasses == {"CommonArgs", "FooArgs", "BarArgs", "Args", "BadArgs", "EnumArgs"}

\* the attribute names a raw namespace for cls may carry
RawNames(cls) ==
    CASE cls \in {"CommonArgs", "FooArgs", "BarArgs"} -> {"verbose", "x", "y"}
      [] cls = "Args" -> {"foo", "num", "my_arg", "my-arg", "mode"}
      [] cls = "BadArgs" -> {"foo", "from_argparse"}
      [] cls = "EnumArgs" -> {"level", "names"}

Namespaces(cls) ==
    UNION {[D -> RawValues] : D \in SUBSET RawNames(cls)}

MatInputs ==
    {[cls |-> cls, args |-> args, disallow_extra_args |-> d, result |-> NoResult] :
        cls \in MatClasses, args \in UNION {Namespaces(c) : c \in MatClasses},
        d \in BOOLEAN}

MatIdle ==
    [cls |-> "None", args |-> <<>>, disallow_extra_args |-> FALSE,
     result |-> NoResult]

InitMat ==
    /\ mat \in {m \in MatInputs : m.args \in Namespaces(m.cls)}
    /\ parser = NoParser
    /\ parsed = NotParsed
    /\ app = NoApp
    /\ val = ValIdle
    /\ cmp = CmpIdle
    /\ dyn = DynIdle
    /\ uni = UniIdle
    /\ fld = FldIdle

\* cls.from_argparse(args, disallow_extra_args)
FromArgparse ==
    /\ mat.cls # "None"
    /\ mat.result.kind = "none"
    /\ mat' = [mat EXCEPT !.result =
                  from_argparse(mat.cls, mat.args, mat.disallow_extra_args)]
    /\ UNCHANGED <<parser, parsed, app, val, cmp, dyn, uni, fld>>

NextMat == FromArgparse

SpecMat == InitMat /\ [][NextMat]_vars

(***************************************************************************)
(* Construction of parsers over all declaration trees                      *)
(***************************************************************************)
InitCtor ==
    /\ mat = MatIdle
    /\ parser = NoParser
    /\ parsed = NotParsed
    /\ app = NoApp
    /\ val = ValIdle
    /\ cmp = CmpIdle
    /\ dyn = DynIdle
    /\ uni = UniIdle
    /\ fld = FldIdle

\* Parser(args_or_group), under an argparse that does or does not check
\* sub-parser names itself
Construct(args_or_group, checks_conflicts) ==
    /\ parser.state = "none"
    /\ parser' = ParserInit(args_or_group, checks_conflicts)
    /\ UNCHANGED <<mat, parsed, app, val, cmp, dyn, uni, fld>>

NextCtor ==
    /\ parser.state = "none"
    /\ \E t \in Trees : \E checks_conflicts \in BOOLEAN :
            Construct(t, checks_conflicts)

SpecCtor == InitCtor /\ [][NextCtor]_vars

(***************************************************************************)
(* Parsing with parsers built from sample declarations                     *)
(***************************************************************************)
\* the number of tokens of a command line
MaxArgv == 3

Tokens ==
    {NameToken("foo"), NameToken("f"), NameToken("bar"), NameToken("a"),
     SwitchToken("verbose"), OptionToken("x", "x_value"),
     OptionToken("y", "y_value")}

Argvs == UNION {[1..n -> Tokens] : n \in 0..MaxArgv}

\* a nested group of one leaf
NestedGroups ==
    {SubParserGroup(<<SubParser("a", ArgsOf("FooArgs"), <<>>)>>, c, r) :
        c \in {"None", "CommonArgs"}, r \in BOOLEAN}

\* a record type alone, or a group of the sub-commands foo (alias f) and bar,
\* where foo is a leaf or a nested group
SampleTrees ==
    {ArgsOf("FooArgs")}
    \cup {SubParserGroup(<<SubParser("foo", x, <<"f">>),
                           SubParser("bar", ArgsOf("BarArgs"), <<>>)>>, c, r) :
             x \in {ArgsOf("FooArgs")} \cup NestedGroups,
             c \in {"None", "CommonArgs"}, r \in BOOLEAN}

Init ==
    /\ mat = MatIdle
    /\ parser = NoParser
    /\ parsed = NotParsed
    /\ app = NoApp
    /\ val = ValIdle
    /\ cmp = CmpIdle
    /\ dyn = DynIdle
    /\ uni = UniIdle
    /\ fld = FldIdle

\* parser.parse_args(raw_args)
ParseArgsCall(raw_args) ==
    /\ parser.state = "ready"
    /\ ~parsed.called
    /\ parsed' = [called |-> TRUE, raw_args |-> raw_args,
                  result |-> ParseArgs(parser, raw_args)]
    /\ UNCHANGED <<mat, parser, app, val, cmp, dyn, uni, fld>>

Next ==
    \/ \E t \in SampleTrees : \E checks_conflicts \in BOOLEAN :
          Construct(t, checks_conflicts)
    \/ \E raw_args \in Argvs : ParseArgsCall(raw_args)

Spec == Init /\ [][Next]_vars

\* the record types Root, FooRoot(Root), FooA(FooRoot), FooB(FooRoot) and
\* Bar(Root), where FooRoot and Bar each declare a field foo_root of their own:
\* the sub-command foo is a group of the leaves a and b, the sub-command bar is
\* the leaf Bar; the groups declare their common_args or none
IsolationTrees ==
    {SubParserGroup(
         <<SubParser("foo",
                     SubParserGroup(<<SubParser("a", ArgsOf("FooA"), <<>>),
                                      SubParser("b", ArgsOf("FooB"), <<>>)>>,
                                    foo_common, foo_required),
                     <<>>),
           SubParser("bar", ArgsOf("Bar"), <<>>)>>,
         common, required) :
        foo_common \in {"None", "FooRoot"}, foo_required \in BOOLEAN,
        common \in {"None", "Root"}, required \in BOOLEAN}

IsolationTokens ==
    {NameToken("foo"), NameToken("a"), NameToken("b"), NameToken("bar"),
     OptionToken("root", "r"), OptionToken("foo_root", "f")}

IsolationArgvs == UNION {[1..n -> IsolationTokens] : n \in 0..MaxArgv}

NextIsolation ==
    \/ \E t \in IsolationTrees : \E checks_conflicts \in BOOLEAN :
          Construct(t, checks_conflicts)
    \/ \E raw_args \in IsolationArgvs : ParseArgsCall(raw_args)

SpecIsolation == Init /\ [][NextIsolation]_vars

(***************************************************************************)
(* Binding and running apps                                                *)
(***************************************************************************)
\* the number of bindings of a binding list
MaxBindings == 3

\* the number of tokens of the command line of a run
MaxRunArgv == 2

BoundTypes == {"CommonArgs", "FooArgs", "BarArgs"}

HandlerNames == <<"h1", "h2", "h3", "h4", "h5", "h6">>

\* lists of bindings; the handler of the i-th binding is the function h<i>
BindingLists ==
    UNION {{[i \in 1..n |-> Binding(types[i], HandlerNames[i])] :
               types \in [1..n -> BoundTypes]} : n \in 0..MaxBindings}

RunTokens ==
    {NameToken("foo"), NameToken("bar"), NameToken("a"),
     SwitchToken("verbose"), OptionToken("x", "x_value")}

RunArgvs == UNION {[1..n -> RunTokens] : n \in 0..MaxRunArgv}

\* parser.verify(bindings)
VerifyCall(bindings) ==
    /\ parser.state = "ready"
    /\ app.call = "none"
    /\ app' = [NoApp EXCEPT !.call = "verify", !.bindings = bindings,
                            !.error = verify(parser, bindings),
                            !.state = IF verify(parser, bindings) = NoError
                                      THEN "returned" ELSE "raised"]
    /\ UNCHANGED <<mat, parser, parsed, val, cmp, dyn, uni, fld>>

\* parser.bind(*bindings)
Bind(bindings) ==
    /\ parser.state = "ready"
    /\ app.call = "none"
    /\ app' = bind(parser, bindings)
    /\ UNCHANGED <<mat, parser, parsed, val, cmp, dyn, uni, fld>>

\* parser.bind_lazy(lambda: bindings)
BindLazy(lazy_bindings) ==
    /\ parser.state = "ready"
    /\ app.call = "none"
    /\ app' = bind_lazy(parser, lazy_bindings)
    /\ UNCHANGED <<mat, parser, parsed, val, cmp, dyn, uni, fld>>

\* app.run(raw_args), up to the return of parse_args
RunParse(raw_args) ==
    /\ app.state = "bound"
    /\ app.pc = "idle"
    /\ app' = run_parse(parser, app, raw_args)
    /\ UNCHANGED <<mat, parser, parsed, val, cmp, dyn, uni, fld>>

RunResolve ==
    /\ app.pc = "parsed"
    /\ app' = run_resolve(app)
    /\ UNCHANGED <<mat, parser, parsed, val, cmp, dyn, uni, fld>>

RunVerify ==
    /\ app.pc = "resolved"
    /\ app' = run_verify(parser, app)
    /\ UNCHANGED <<mat, parser, parsed, val, cmp, dyn, uni, fld>>

RunDispatch ==
    /\ app.pc = "verified"
    /\ app' = run_dispatch(app)
    /\ UNCHANGED <<mat, parser, parsed, val, cmp, dyn, uni, fld>>

NextApp ==
    \/ \E t \in SampleTrees : \E checks_conflicts \in BOOLEAN :
          Construct(t, checks_conflicts)
    \/ \E bindings \in BindingLists : VerifyCall(bindings)
    \/ \E bindings \in BindingLists : Bind(bindings)
    \/ \E bindings \in BindingLists : BindLazy(bindings)
    \/ \E raw_args \in RunArgvs : RunParse(raw_args)
    \/ RunResolve
    \/ RunVerify
    \/ RunDispatch

SpecApp == Init /\ [][NextApp]_vars

(***************************************************************************)
(* Validation of values against annotations                                *)
(***************************************************************************)
\* how deep Optional, List and Union are nested around a plain annotation
MaxNesting == 2

\* the number of elements of a list value
MaxListLen == 2

\* the annotations validated: builtin types, a user class, Enum classes, a
\* NewType, Literals and an unsupported generic alias, inside up to MaxNesting
\* levels of Optional, List and Union
Annotations ==
    LET Plain == {Scalar("str"), Scalar("int"), Scalar("bool"), Scalar("float"),
                  Scalar("MyClass"), Scalar("StrEnum"), Scalar("IntEnum"),
                  Scalar("MixEnum"),
                  Scalar("MyString"),
                  LiteralOf(<<PyInt("1"), PyInt("2"), PyInt("3")>>),
                  LiteralOf(<<PyStr("b"), PyStr("a")>>),
                  DictOf(Scalar("str"), Scalar("int"))}
        Partners == {Scalar("int"), Scalar("str")}
        Wrap(S) ==
            S \cup {OptionalOf(x) : x \in S}
              \cup {ListOf(x) : x \in S}
              \cup {UnionOf(<<x, y>>) : x \in S, y \in Partners}
              \cup {UnionOf(<<y, x, Scalar("NoneType")>>) : x \in S, y \in Partners}
        Nested[n \in 0..MaxNesting] == IF n = 0 THEN Plain ELSE Wrap(Nested[n - 1])
    IN  Nested[MaxNesting]

\* the values validated: None, strings, numbers, instances, Enum members and
\* lists of up to MaxListLen elements; the floats are not whole numbers
Values ==
    LET Plain == {PyNone, PyStr("a"), PyStr("b"), PyStr("some_foo"),
                  PyStr("some_foo_value"),
                  PyStr("SoMe-FoO"), PyStr("1"), PyInt("1"), PyInt("4"),
                  PyBool(TRUE), PyFloat("4.5"),
                  PyObj("MyClass", "my_class"), PyObj("MySubClass", "my_sub_class"),
                  PyEnum("StrEnum", "some_foo"), PyEnum("IntEnum", "a")}
        Elements == {PyStr("a"), PyStr("some_foo_value"), PyInt("1"), PyNone}
    IN  Plain \cup {PyList(items) :
                       items \in UNION {[1..n -> Elements] : n \in 0..MaxListLen}}

InitVal ==
    /\ mat = MatIdle
    /\ parser = NoParser
    /\ parsed = NotParsed
    /\ app = NoApp
    /\ val \in {[ValIdle EXCEPT !.annotation = a, !.value = v] :
                   a \in Annotations, v \in Values}
    /\ cmp = CmpIdle
    /\ dyn = DynIdle
    /\ uni = UniIdle
    /\ fld = FldIdle

\* The native parser converts the token, or each token of a list argument,
\* with the literal or enum converter of the annotation and rejects a converted
\* token that is not among the choices (_build_add_argument_args: Optional is
\* unwrapped, then List; type and choices come from what is left).
Convert ==
    LET a == val.annotation
        opt == get_underlying_if_optional(a)
        a1 == IF opt # <<>> THEN opt[1] ELSE a
        lst == get_underlying_if_list(a1)
        is_collection == lst # <<>>
        a2 == IF is_collection THEN lst[1] ELSE a1
        type_converter == get_underlying_type_converter(a2)
        choices == IF get_allowed_values_if_literal(a2) # <<>>
                   THEN get_allowed_values_if_literal(a2)
                   ELSE get_allowed_values_if_enum(a2)
        type(x) == IF type_converter.kind = "enum"
                   THEN _create_enum_type_converter(type_converter.allowed_values, x)
                   ELSE _create_literal_type_converter(type_converter.allowed_values, x)
        contains(x) == choices # <<>> =>
                           \E i \in 1..Len(choices[1]) : PyEq(choices[1][i], x)
        tokens == IF is_collection THEN val.value.items ELSE <<val.value>>
        values == [i \in 1..Len(tokens) |-> type(tokens[i])]
    IN  /\ ~val.called /\ ~val.converted
        /\ type_converter.kind \in {"enum", "literal"}
        /\ IF is_collection
           THEN /\ val.value.t = "list"
                /\ \A i \in 1..Len(val.value.items) : val.value.items[i].t = "str"
           ELSE val.value.t = "str"
        /\ val' = [val EXCEPT !.token = val.value,
                              !.converted = TRUE,
                              !.rejected = \E i \in 1..Len(values) : ~contains(values[i]),
                              !.value = IF is_collection THEN PyList(values)
                                        ELSE values[1]]
        /\ UNCHANGED <<mat, parser, parsed, app, cmp, dyn, uni, fld>>

\* TypeAnnotation(annotation).validate(value)
Validate ==
    /\ ~val.called /\ ~val.rejected /\ ~val.inspected
    /\ val' = [val EXCEPT !.called = TRUE,
                          !.result = validate(val.annotation, val.value)]
    /\ UNCHANGED <<mat, parser, parsed, app, cmp, dyn, uni, fld>>

\* TypeAnnotation(annotation).get_underlying_if_list(), and the same after
\* get_underlying_if_optional() where that returns an annotation
Inspect ==
    LET opt == get_underlying_if_optional(val.annotation)
    IN  /\ ~val.called /\ ~val.converted /\ ~val.inspected
        /\ val.value = PyNone      \* the inspection takes no value
        /\ val' = [val EXCEPT
                      !.inspected = TRUE,
                      !.if_list = get_underlying_if_list(val.annotation),
                      !.if_optional_if_list =
                          IF opt # <<>> THEN get_underlying_if_list(opt[1]) ELSE <<>>]
        /\ UNCHANGED <<mat, parser, parsed, app, cmp, dyn, uni, fld>>

NextVal == Convert \/ Validate \/ Inspect

SpecVal == InitVal /\ [][NextVal]_vars

(***************************************************************************)
(* Instances: building, reading and comparing them                         *)
(***************************************************************************)
\* side = cls.from_argparse(argparse.Namespace(**args))
CmpFromArgparse(side, cls, args) ==
    /\ cmp[side].how = "none" /\ ~cmp.compared
    /\ cmp' = [cmp EXCEPT ![side] = [how |-> "from_argparse", args |-> args,
                                      obj |-> from_argparse(cls, args, FALSE)]]
    /\ UNCHANGED <<mat, parser, parsed, app, val, dyn, uni, fld>>

\* side = cls(**args), the keywords in declaration order
CmpNew(side, cls, args) ==
    LET names == SelectSeq(DictKeys(collect_type_annotations(cls)),
                           LAMBDA n : n \in DOMAIN args)
        kwargs == [i \in 1..Len(names) |-> <<names[i], args[names[i]]>>]
    IN  /\ cmp[side].how = "none" /\ ~cmp.compared
        /\ cmp' = [cmp EXCEPT ![side] = [how |-> "new", args |-> args,
                                          obj |-> __init__(cls, kwargs)]]
        /\ UNCHANGED <<mat, parser, parsed, app, val, dyn, uni, fld>>

\* the right operand is a value that is no record instance
CmpOther(value) ==
    /\ cmp.right.how = "none" /\ ~cmp.compared
    /\ cmp' = [cmp EXCEPT !.right = [how |-> "value", args |-> <<>>,
                                     obj |-> [kind |-> "value", value |-> value]]]
    /\ UNCHANGED <<mat, parser, parsed, app, val, dyn, uni, fld>>

\* side.name is read: <<the value>> of an attribute the instance holds, <<>>
\* for a name it does not hold
CmpGetAttr(side, name) ==
    /\ cmp[side].obj.kind = "instance"
    /\ cmp.read = <<>>
    /\ cmp' = [cmp EXCEPT !.read =
                  <<side, name,
                    IF DictHas(cmp[side].obj.dict, name)
                    THEN <<DictGet(cmp[side].obj.dict, name)>> ELSE <<>> >>]
    /\ UNCHANGED <<mat, parser, parsed, app, val, dyn, uni, fld>>

\* left == right and left != right are evaluated
CmpCompare ==
    /\ cmp.left.obj.kind = "instance"
    /\ cmp.right.obj.kind \in {"instance", "value"}
    /\ ~cmp.compared
    /\ cmp' = [cmp EXCEPT !.compared = TRUE,
                          !.eq = __eq__(cmp.left.obj, cmp.right.obj),
                          !.ne = __ne__(cmp.left.obj, cmp.right.obj)]
    /\ UNCHANGED <<mat, parser, parsed, app, val, dyn, uni, fld>>

\* instances of EnumArgs, CommonArgs and FooArgs are built from the raw
\* namespaces and keyword sets over a few raw values per field
NextCmp ==
    LET raw == [level |-> {PyInt("1"), PyBool(TRUE), PyInt("42")},
                names |-> {PyNone, PyList(<<>>), PyList(<<PyStr("a")>>)},
                verbose |-> {PyBool(TRUE), PyStr("a")},
                x |-> {PyStr("a")}]
        declared(cls) == SeqToSet(DictKeys(collect_type_annotations(cls)))
        namespaces(cls) ==
            UNION {{f \in [D -> UNION {raw[n] : n \in D}] : \A n \in D : f[n] \in raw[n]} :
                      D \in SUBSET declared(cls)}
        classes == {"EnumArgs", "CommonArgs", "FooArgs"}
    IN  \/ \E side \in {"left", "right"}, cls \in classes :
              \E args \in namespaces(cls) : CmpFromArgparse(side, cls, args)
        \/ \E side \in {"left", "right"}, cls \in classes :
              \E args \in namespaces(cls) : CmpNew(side, cls, args)
        \/ \E value \in {PyNone, PyStr("a"), PyList(<<>>)} : CmpOther(value)
        \/ \E side \in {"left", "right"} :
              /\ cmp[side].obj.kind = "instance"
              /\ \E name \in declared(cmp[side].obj.type) : CmpGetAttr(side, name)
        \/ CmpCompare

SpecCmp == InitCtor /\ [][NextCmp]_vars

(***************************************************************************)
(* Validation of a raw namespace against a union of record types           *)
(***************************************************************************)
\* the number of members written in a Union[...]
MaxUnionMembers == 3

\* Union[...] over record types and other types, in every order; a Union of
\* one member is that member itself
TypeUnions ==
    LET members == {Scalar("CommonArgs"), Scalar("FooArgs"), Scalar("BarArgs"),
                    Scalar("str"), Scalar("NoneType")}
    IN  {UnionOf(seq) : seq \in UNION {[1..n -> members] : n \in 1..MaxUnionMembers}}

InitUni ==
    /\ mat = MatIdle
    /\ parser = NoParser
    /\ parsed = NotParsed
    /\ app = NoApp
    /\ val = ValIdle
    /\ cmp = CmpIdle
    /\ dyn = DynIdle
    /\ uni \in {[UniIdle EXCEPT !.type_union = t, !.args = args] :
                   t \in TypeUnions, args \in Namespaces("FooArgs")}
    /\ fld = FldIdle

\* WithUnionType[type_union].validate(args)
WithUnionTypeValidate ==
    /\ ~uni.called
    /\ uni' = [uni EXCEPT !.called = TRUE,
                          !.result = validate_type_union(uni.args, uni.type_union)]
    /\ UNCHANGED <<mat, parser, parsed, app, val, cmp, dyn, fld>>

NextUni == WithUnionTypeValidate

SpecUni == InitUni /\ [][NextUni]_vars

(***************************************************************************)
(* One field: its add_argument call and the parsing of its command lines   *)
(***************************************************************************)
\* the number of strings of a command line
MaxFieldArgv == 2

\* class Args(TypedArgs): <name>: <annotation> = arg(*flags, ...).  Switches
\* are not positional, arg(type=str, dynamic_choices=lambda: ["v", "d"]) is
\* given to scalar fields, nargs to list fields.
FieldDecls ==
    LET scalars == {Scalar("str"), Scalar("bool"), OptionalOf(Scalar("str"))}
        lists == {ListOf(Scalar("str")), OptionalOf(ListOf(Scalar("str")))}
        flags == {<<>>, <<"-m">>, <<"--bar">>, <<"-m", "--bar">>, <<"--my-args">>,
                  <<"bar">>}
        defaults == {[default |-> PyNone, dynamic_default |-> <<>>],
                     [default |-> PyBool(TRUE), dynamic_default |-> <<>>],
                     [default |-> PyBool(FALSE), dynamic_default |-> <<>>],
                     [default |-> PyStr("d"), dynamic_default |-> <<>>],
                     [default |-> PyList(<<PyStr("d")>>), dynamic_default |-> <<>>],
                     [default |-> PyNone, dynamic_default |-> <<PyBool(TRUE)>>]}
        declared ==
            {[name |-> name, annotation |-> annotation,
              arg |-> [flags |-> f, positional |-> positional, default |-> d.default,
                       dynamic_default |-> d.dynamic_default,
                       dynamic_choices |-> IF typed THEN << <<PyStr("v"), PyStr("d")>> >>
                                           ELSE <<>>,
                       type |-> IF typed THEN "str" ELSE "None",
                       nargs |-> nargs]] :
                name \in {"x", "my_arg"}, annotation \in scalars \cup lists,
                f \in flags, positional \in BOOLEAN, d \in defaults,
                typed \in BOOLEAN, nargs \in {"None", "+"}}
    IN  {decl \in declared :
            /\ decl.arg.positional =>
                   decl.annotation # Scalar("bool") /\ decl.arg.flags \in {<<>>, <<"-m">>}
            /\ decl.arg.type # "None" => decl.annotation \in scalars
            /\ decl.arg.nargs # "None" => decl.annotation \in lists}

FieldTokens == {"--my-arg", "--my_arg", "-m", "--bar", "--x", "v"}

FieldArgvs == UNION {[1..n -> FieldTokens] : n \in 0..MaxFieldArgv}

InitArg ==
    /\ mat = MatIdle
    /\ parser = NoParser
    /\ parsed = NotParsed
    /\ app = NoApp
    /\ val = ValIdle
    /\ cmp = CmpIdle
    /\ dyn = DynIdle
    /\ uni = UniIdle
    /\ fld \in {[FldIdle EXCEPT !.state = "declared", !.name = decl.name,
                                !.annotation = decl.annotation, !.arg = decl.arg] :
                   decl \in FieldDecls}

\* Parser(Args): _add_arguments builds the add_argument call of the field
FieldConstruct ==
    LET added(a) ==
            [fld EXCEPT !.state = IF a.error = NoError THEN "built" ELSE "failed",
                        !.added = a]
    IN  /\ fld.state = "declared"
        /\ fld' = added(_build_add_argument_args(fld.name, fld.annotation, fld.arg))
        /\ UNCHANGED <<mat, parser, parsed, app, val, cmp, dyn, uni>>

\* parser.parse_args(argv): the native parser, then the validation of the
\* attribute by from_argparse; the process exits, a TypeError is raised, or
\* the instance holds the value
FieldParse(argv) ==
    LET validated(r) ==
            IF r.raised THEN [kind |-> "TypeError", value |-> r.value]
            ELSE [kind |-> "instance", value |-> r.value]
        parsed_by(native) ==
            IF ~native.ok THEN [kind |-> "exit", value |-> PyNone]
            ELSE validated(validate_with_error(fld.annotation, native.value, fld.name))
    IN  /\ fld.state = "built"
        /\ fld' = [fld EXCEPT !.state = "parsed", !.argv = argv,
                              !.result = parsed_by(FieldParseArgs(fld.added, argv))]
        /\ UNCHANGED <<mat, parser, parsed, app, val, cmp, dyn, uni>>

NextArg ==
    \/ FieldConstruct
    \/ \E argv \in FieldArgvs : FieldParse(argv)

SpecArg == InitArg /\ [][NextArg]_vars

(***************************************************************************)
(* Defaults: list defaults, dynamic defaults and dynamic choices           *)
(***************************************************************************)
\* the record type declares
\*     actions: <annotation> = arg(default=["foo", "bar"])
\*     k: int = arg(dynamic_default=thunk)
\*     c: str = arg(dynamic_choices=thunk, default="a")
\* List objects live in dyn.heap and are known by their position in it; the
\* declaration's default list is object 1.  The n-th invocation of a thunk
\* returns the value n.

\* the number of parsers built from the record type
MaxParsers == 2

\* the number of parse_args calls
MaxParses == 3

\* the number of elements appended to list objects
MaxAppends == 2

\* validate hands back the list object it was given (the isinstance branch)
\* instead of a list built anew (the list branch)
RECURSIVE returns_same_object(_)
returns_same_object(a) ==
    IF get_underlying_if_optional(a) # <<>>
    THEN returns_same_object(get_underlying_if_optional(a)[1])
    ELSE get_underlying_if_list(a) = <<>>

InitDyn ==
    /\ mat = MatIdle
    /\ parser = NoParser
    /\ parsed = NotParsed
    /\ app = NoApp
    /\ val = ValIdle
    /\ cmp = CmpIdle
    /\ dyn \in {[DynIdle EXCEPT !.annotation = a,
                                !.heap = << <<"foo", "bar">> >>,
                                !.declared = <<"foo", "bar">>] :
                   a \in {ListOf(Scalar("str")), OptionalOf(ListOf(Scalar("str"))),
                          Scalar("list")}}
    /\ uni = UniIdle
    /\ fld = FldIdle

\* Parser(Args): _build_add_argument_args calls arg.resolve_default() for
\* actions (a deep copy of the declared default, a new list object) and for k
\* (the thunk is invoked), and arg.dynamic_choices() for c
DynConstruct ==
    /\ Len(dyn.parsers) < MaxParsers
    /\ dyn' = [dyn EXCEPT
                  !.heap = Append(@, dyn.heap[1]),
                  !.default_calls = @ + 1,
                  !.choices_calls = @ + 1,
                  !.parsers = Append(@, [actions_default |-> Len(dyn.heap) + 1,
                                         built_from |-> dyn.heap[1],
                                         k_default |-> dyn.default_calls + 1,
                                         choices |-> dyn.choices_calls + 1])]
    /\ UNCHANGED <<mat, parser, parsed, app, val, cmp, uni, fld>>

\* a parse_args that resolves the dynamic default and the dynamic choices
\* itself, once per call
DynParseResolving(p) ==
    LET P == dyn.parsers[p]
        same == returns_same_object(dyn.annotation)
    IN  /\ Len(dyn.instances) < MaxParses
        /\ dyn' = [dyn EXCEPT
                      !.heap = IF same THEN @ ELSE Append(@, dyn.heap[P.actions_default]),
                      !.default_calls = @ + 1,
                      !.choices_calls = @ + 1,
                      !.instances = Append(@,
                          [parser |-> p,
                           actions |-> IF same THEN P.actions_default
                                       ELSE Len(dyn.heap) + 1,
                           own |-> <<>>,
                           returned |-> dyn.heap[P.actions_default],
                           k |-> dyn.default_calls + 1,
                           choices |-> dyn.choices_calls + 1])]
        /\ UNCHANGED <<mat, parser, parsed, app, val, cmp, uni, fld>>

\* parser p .parse_args([]): the native parser puts the defaults it was built
\* with into the namespace, the list object itself; from_argparse validates
\* them, and validate returns the list it was given or a list built anew
DynParse(p) ==
    LET P == dyn.parsers[p]
        same == returns_same_object(dyn.annotation)
    IN  /\ Len(dyn.instances) < MaxParses
        /\ validate(dyn.annotation,
                    PyList([i \in 1..Len(dyn.heap[P.actions_default]) |->
                               PyStr(dyn.heap[P.actions_default][i])]))[2] = NoError
        /\ dyn' = [dyn EXCEPT
                      !.heap = IF same THEN @ ELSE Append(@, dyn.heap[P.actions_default]),
                      !.instances = Append(@,
                          [parser |-> p,
                           actions |-> IF same THEN P.actions_default
                                       ELSE Len(dyn.heap) + 1,
                           own |-> <<>>,
                           returned |-> dyn.heap[P.actions_default],
                           k |-> P.k_default,
                           choices |-> P.choices])]
        /\ UNCHANGED <<mat, parser, parsed, app, val, cmp, uni, fld>>

\* instance i .actions.append("baz")
DynAppendInstance(i) ==
    /\ dyn.appends < MaxAppends
    /\ dyn' = [dyn EXCEPT !.heap[dyn.instances[i].actions] = Append(@, "baz"),
                          !.instances[i].own = Append(@, "baz"),
                          !.appends = @ + 1]
    /\ UNCHANGED <<mat, parser, parsed, app, val, cmp, uni, fld>>

\* Args.actions.default.append("baz")
DynAppendDefault ==
    /\ dyn.appends < MaxAppends
    /\ dyn' = [dyn EXCEPT !.heap[1] = Append(@, "baz"),
                          !.declared = Append(@, "baz"),
                          !.appends = @ + 1]
    /\ UNCHANGED <<mat, parser, parsed, app, val, cmp, uni, fld>>

NextDyn ==
    \/ DynConstruct
    \/ \E p \in 1..Len(dyn.parsers) : DynParse(p)
    \/ \E i \in 1..Len(dyn.instances) : DynAppendInstance(i)
    \/ DynAppendDefault

SpecDyn == InitDyn /\ [][NextDyn]_vars

(***************************************************************************)
(* Properties of the constructor                                           *)
(***************************************************************************)
\* the names a declaration is reachable under
DeclNames(decl) == {decl.name} \cup SeqToSet(decl.aliases)

\* every registration the declarations ask for: the leaf record types and the
\* common_args of non-required groups, each with its value path and its
\* position in the tree
RECURSIVE Registrations(_, _, _)
Registrations(t, path, pos) ==
    IF t.kind = "args"
    THEN {[path |-> path, type |-> t.type, pos |-> pos, leaf |-> TRUE]}
    ELSE (IF t.common # "None" /\ ~t.required
          THEN {[path |-> path, type |-> t.common, pos |-> pos, leaf |-> FALSE]}
          ELSE {})
         \cup UNION {
                UNION {Registrations(t.subs[i].child,
                                     Append(path, PyStr(n)), Append(pos, <<i, n>>)) :
                          n \in DeclNames(t.subs[i])} :
                i \in 1..Len(t.subs)}

TreeRegs == Registrations(parser.args_or_group, <<>>, <<>>)

\* two leaf record types registered under one value path
LeafCollisions ==
    {pair \in TreeRegs \X TreeRegs :
        /\ pair[1].leaf /\ pair[2].leaf
        /\ pair[1].pos # pair[2].pos
        /\ pair[1].path = pair[2].path}

\* the value paths more than one registration asks for
CrowdedPaths ==
    {r.path : r \in {r1 \in TreeRegs :
                        \E r2 \in TreeRegs : r2.pos # r1.pos /\ r2.path = r1.path}}

\* C5: two leaf record types registered under the same value path make the
\* constructor raise SubParserConflict before the native parser is built; the
\* error names a value path that a leaf and another registration share and the
\* two record types met there, and when the tree holds a single such pair it
\* names exactly that path and both types.
C5_LeafConflictRaised ==
    (parser.state # "none" /\ LeafCollisions # {})
    => /\ parser.state = "raised"
       /\ parser.error.kind = "SubParserConflict"
       /\ ~parser.native_built
       /\ parser.argparse_parser = EmptyNative
       /\ \E r1 \in TreeRegs : \E r2 \in TreeRegs :
             /\ r1.leaf /\ r1.pos # r2.pos
             /\ r1.path = parser.error.path /\ r2.path = parser.error.path
             /\ r1.type = parser.error.new /\ r2.type = parser.error.old
       /\ \A pair \in LeafCollisions :
             (CrowdedPaths = {pair[1].path}
              /\ \A r \in TreeRegs : r.path = pair[1].path => r.pos \in {pair[1].pos, pair[2].pos})
             => /\ parser.error.path = pair[1].path
                /\ {parser.error.new, parser.error.old} = {pair[1].type, pair[2].type}

C5_Witness ==
    /\ parser.state = "raised"
    /\ parser.error.kind = "SubParserConflict"
    /\ parser.error.new # parser.error.old
    /\ \E pair \in LeafCollisions :
          /\ pair[1].type # pair[2].type
          /\ Len(pair[1].pos) = 1
          /\ parser.args_or_group.subs[pair[1].pos[1][1]].name
                # parser.args_or_group.subs[pair[2].pos[1][1]].name
          /\ CrowdedPaths = {pair[1].path}

\* two sibling declarations of one group share a name or alias
RECURSIVE HasSiblingCollision(_)
HasSiblingCollision(t) ==
    /\ t.kind = "group"
    /\ \/ \E i \in 1..Len(t.subs) : \E j \in 1..Len(t.subs) :
             i < j /\ DeclNames(t.subs[i]) \cap DeclNames(t.subs[j]) # {}
       \/ \E i \in 1..Len(t.subs) : HasSiblingCollision(t.subs[i].child)

\* C6: in every successfully constructed Parser no two sibling declarations
\* share a name or alias (a violating tree is rejected by the constructor).
C6_NoSiblingCollision ==
    parser.state = "ready" => ~HasSiblingCollision(parser.args_or_group)

(***************************************************************************)
(* Properties of parse_args                                                *)
(***************************************************************************)
\* the namespace the native parser produced for the recorded call
ParsedNative == NativeParseArgs(parser.argparse_parser, parsed.raw_args)

\* the declaration of group t reachable under the name or alias n
DeclNamed(t, n) ==
    t.subs[CHOOSE i \in 1..Len(t.subs) : n \in DeclNames(t.subs[i])]

\* a required group with common_args CommonArgs whose sub-commands are leaves
IsCommonLeafGroup(t) ==
    /\ t.kind = "group" /\ t.required /\ t.common = "CommonArgs"
    /\ \A i \in 1..Len(t.subs) :
          /\ t.subs[i].child.kind = "args"
          /\ Base[t.subs[i].child.type] = "CommonArgs"

\* the flag that sets the own field of a leaf record type
LeafFlag(type) ==
    IF type = "FooArgs" THEN OptionToken("x", "x_value")
    ELSE OptionToken("y", "y_value")

\* C1: with a required group of leaves sharing the common_args type (bool field
\* verbose), [<leaf>, <leaf flag>] yields an instance of exactly the leaf's record
\* type with the leaf field set and verbose false; the same command line with
\* --verbose before the sub-command yields the same type and leaf field with
\* verbose true.
C1_SubCommandResolution ==
    (parsed.called /\ IsCommonLeafGroup(parser.args_or_group))
    => \A n \in UNION {DeclNames(parser.args_or_group.subs[i]) :
                          i \in 1..Len(parser.args_or_group.subs)} :
         LET type == DeclNamed(parser.args_or_group, n).child.type
             flag == LeafFlag(type)
             expected(verbose) ==
                 /\ parsed.result.kind = "instance"
                 /\ parsed.result.type = type
                 /\ SeqToSet(DictKeys(parsed.result.dict)) = {"verbose", flag.dest}
                 /\ DictGet(parsed.result.dict, flag.dest) = PyStr(flag.value)
                 /\ DictGet(parsed.result.dict, "verbose") = PyBool(verbose)
         IN  /\ parsed.raw_args = <<NameToken(n), flag>> => expected(FALSE)
             /\ parsed.raw_args = <<SwitchToken("verbose"), NameToken(n), flag>>
                   => expected(TRUE)

C1_Witness ==
    /\ parsed.called /\ IsCommonLeafGroup(parser.args_or_group)
    /\ parsed.raw_args = <<SwitchToken("verbose"), NameToken("foo"),
                           OptionToken("x", "x_value")>>
    /\ parsed.result.kind = "instance"
    /\ parsed.result.type = "FooArgs"
    /\ DictGet(parsed.result.dict, "verbose") = PyBool(TRUE)

\* the key paths whose value path is a key of the type mapping
MatchingKeyPaths ==
    {p \in parser.all_leaf_dest_paths :
        /\ \A k \in 1..Len(p) : p[k] \in DOMAIN ParsedNative.ns
        /\ DictHas(parser.type_mapping,
                   [k \in 1..Len(p) |-> ParsedNative.ns[p[k]]])}

LongestMatching ==
    CHOOSE p \in MatchingKeyPaths : \A q \in MatchingKeyPaths : Len(q) <= Len(p)

\* the nodes along the chain of sub-commands the command line chose, from the
\* root down: it ends at a leaf, or at a group none of whose sub-commands was
\* chosen
RECURSIVE ChosenChain(_, _)
ChosenChain(t, depth) ==
    IF t.kind = "args" THEN <<t>>
    ELSE IF ParsedNative.ns[SubCommandDest(depth)] = PyNone THEN <<t>>
    ELSE <<t>> \o ChosenChain(
                     DeclNamed(t, ParsedNative.ns[SubCommandDest(depth)].v).child,
                     depth + 1)

\* the node registers a record type: a leaf, or a non-required group with
\* common_args
Registers(t) == t.kind = "args" \/ (t.common # "None" /\ ~t.required)

RegisteredType(t) == IF t.kind = "args" THEN t.type ELSE t.common

ParsedChain == ChosenChain(parser.args_or_group, 1)

RegisteringIdx == {i \in 1..Len(ParsedChain) : Registers(ParsedChain[i])}

\* C7 as stated: the record type of the longest matching key path is
\* materialized, and the common_args type of a non-required group is returned
\* only when no sub-command of that group was chosen.
C7_CommonOnlyWithoutSubCommand ==
    (parsed.called /\ ParsedNative.ok /\ MatchingKeyPaths # {})
    => LET p == LongestMatching
           value_path == [k \in 1..Len(p) |-> ParsedNative.ns[p[k]]]
           node == ParsedChain[Len(p) + 1]
       IN  /\ parsed.result.type = DictGet(parser.type_mapping, value_path)
           /\ node.kind = "group"
                 => ParsedNative.ns[SubCommandDest(Len(p) + 1)] = PyNone

\* C7 amended: the record type of the longest matching key path is materialized;
\* it is the type of the deepest node of the chosen chain that registers a type,
\* so a chosen leaf is never shadowed, and the common_args type of a
\* non-required group is returned only when the chain ends at a group and no
\* group of the chain below it registers common_args.
C7_LongestMatchSelected ==
    (parsed.called /\ ParsedNative.ok /\ MatchingKeyPaths # {})
    => LET p == LongestMatching
           value_path == [k \in 1..Len(p) |-> ParsedNative.ns[p[k]]]
           node == ParsedChain[Len(p) + 1]
       IN  /\ parsed.result.type = DictGet(parser.type_mapping, value_path)
           /\ RegisteringIdx # {}
           /\ \A i \in RegisteringIdx : i <= Len(p) + 1
           /\ Len(p) + 1 \in RegisteringIdx
           /\ parsed.result.type = RegisteredType(node)
           /\ ParsedChain[Len(ParsedChain)].kind = "args"
                 => parsed.result.type = ParsedChain[Len(ParsedChain)].type
           /\ node.kind = "group"
                 => /\ ParsedChain[Len(ParsedChain)].kind = "group"
                    /\ \A i \in (Len(p) + 2)..Len(ParsedChain) :
                          ~Registers(ParsedChain[i])

C7_Witness ==
    /\ parsed.called /\ ParsedNative.ok
    /\ Cardinality(MatchingKeyPaths) >= 2
    /\ parsed.result.kind = "instance"
    /\ parsed.result.type = "FooArgs"
    /\ Len(LongestMatching) = 2

\* C8 as stated: whenever the native parser accepts the command line, some key
\* path matches and parse_args returns an instance of a type of the mapping.
C8_AlwaysMatches ==
    (parsed.called /\ ParsedNative.ok)
    => /\ MatchingKeyPaths # {}
       /\ parsed.result.kind = "instance"

\* every non-required group of the tree declares common_args
RECURSIVE OptionalGroupsHaveCommon(_)
OptionalGroupsHaveCommon(t) ==
    t.kind = "group"
    => /\ t.required \/ t.common # "None"
       /\ \A i \in 1..Len(t.subs) : OptionalGroupsHaveCommon(t.subs[i].child)

\* C8 amended: when the native parser accepts the command line, a key path
\* matches exactly when the chosen chain holds a node that registers a type;
\* then an instance of a type of the mapping is returned.  This is always so when
\* every non-required group declares common_args.  Otherwise parse_args ends in
\* the 'no key path matched' exit and returns no instance.
C8_MatchesIffRegistered ==
    (parsed.called /\ ParsedNative.ok)
    => /\ (MatchingKeyPaths # {}) = (RegisteringIdx # {})
       /\ OptionalGroupsHaveCommon(parser.args_or_group) => MatchingKeyPaths # {}
       /\ MatchingKeyPaths # {}
             => /\ parsed.result.kind = "instance"
                /\ parsed.result.type \in SeqToSet(DictValues(parser.type_mapping))
       /\ MatchingKeyPaths = {}
             => /\ parsed.result.kind = "exit"
                /\ parsed.result.dict = <<>>
                /\ parsed.result.msg =
                     <<"Failed to extract argument type from namespace object">>

C8_Witness ==
    /\ parsed.called /\ ParsedNative.ok
    /\ MatchingKeyPaths = {}
    /\ parsed.result.kind = "exit"
    /\ ~OptionalGroupsHaveCommon(parser.args_or_group)

(***************************************************************************)
(* Properties of verify, bind and App.run                                  *)
(***************************************************************************)
\* every leaf record type, and the common_args type of every non-required
\* group that declares one
RECURSIVE NeededTypes(_)
NeededTypes(t) ==
    IF t.kind = "args" THEN {t.type}
    ELSE (IF t.common # "None" /\ ~t.required THEN {t.common} ELSE {})
         \cup UNION {NeededTypes(t.subs[i].child) : i \in 1..Len(t.subs)}

OfferedTypes == {app.bindings[i].arg_type : i \in 1..Len(app.bindings)}

MissingTypes == NeededTypes(parser.args_or_group) \ OfferedTypes

HandlerEvents == SelectSeq(app.log, LAMBDA e : e.ev = "handler")

\* C2: the types to bind are the leaf record types plus the common_args types
\* of non-required groups; verify and bind given bindings that lack exactly one
\* of them raise the ValueError naming that type, and no handler is invoked.
C2_BindingCompleteness ==
    app.call \in {"verify", "bind"}
    => /\ NeededTypes(parser.args_or_group)
             = SeqToSet(DictValues(parser.type_mapping))
       /\ MissingTypes = {} => app.state # "raised" /\ app.error = NoError
       /\ MissingTypes # {}
             => /\ app.state = "raised"
                /\ Len(app.error) = 2
                /\ app.error[2] \in MissingTypes
                /\ app.log = <<>>
       /\ \A m \in MissingTypes :
             MissingTypes = {m}
             => /\ app.state = "raised"
                /\ app.error = IncompleteBindings(m)
                /\ HandlerEvents = <<>>
                /\ app.pc = "idle"

C2_Witness ==
    /\ app.call = "bind"
    /\ parser.args_or_group.kind = "group"
    /\ ~parser.args_or_group.required
    /\ MissingTypes = {"CommonArgs"}
    /\ Len(app.bindings) = 2
    /\ app.state = "raised"
    /\ app.error = IncompleteBindings("CommonArgs")

\* C3: the dispatch of App.run invokes exactly one handler, that of the first
\* binding in binding order whose declared type is exactly the type of the
\* parsed instance, with that instance as argument; no handler runs otherwise,
\* and the handler of a base type is never invoked for a derived instance.
C3_ExactTypeDispatch ==
    /\ app.outcome \notin {"returned", "AssertionError"} => HandlerEvents = <<>>
    /\ app.outcome \in {"returned", "AssertionError"}
          => /\ app.outcome = "returned"
             /\ app.typed_args.kind = "instance"
             /\ Len(HandlerEvents) = 1
             /\ HandlerEvents[1].arg = app.typed_args
             /\ \E i \in 1..Len(app.resolved) :
                   /\ app.resolved[i].func = HandlerEvents[1].func
                   /\ app.resolved[i].arg_type = app.typed_args.type
                   /\ \A j \in 1..(i - 1) :
                         app.resolved[j].arg_type # app.typed_args.type

C3_Witness ==
    /\ app.outcome = "returned"
    /\ app.typed_args.type = "FooArgs"
    /\ Len(app.resolved) >= 2
    /\ app.resolved[1].arg_type = "CommonArgs"
    /\ app.resolved[2].arg_type = "FooArgs"
    /\ HandlerEvents = <<Event("handler", app.resolved[2].func, app.typed_args)>>

LogNames == [i \in 1..Len(app.log) |-> app.log[i].ev]

IsPrefix(s, t) == Len(s) <= Len(t) /\ \A i \in 1..Len(s) : s[i] = t[i]

\* C4: the calls of a run happen in the order parse_args, lazy generator (if
\* any), verify, handler; an incomplete-binding ValueError of a run leaves no
\* handler call behind; bind verifies at once, bind_lazy never does and leaves
\* the ValueError to run; a run ended by parse_args calls neither the generator
\* nor a handler.
C4_RunOrdering ==
    /\ IsPrefix(LogNames,
                IF app.lazy
                THEN <<"parse_args", "generator", "verify", "handler">>
                ELSE <<"parse_args", "verify", "handler">>)
    /\ app.outcome = "ValueError"
          => /\ HandlerEvents = <<>>
             /\ LogNames[Len(LogNames)] = "verify"
    /\ app.outcome \in {"SystemExit", "TypeError"} => LogNames = <<"parse_args">>
    /\ app.outcome = "returned" => LogNames[Len(LogNames)] = "handler"
    /\ app.call = "bind_lazy" => app.state = "bound"
    /\ (app.call = "bind" /\ app.state = "bound")
          => verify(parser, app.bindings) = NoError
    /\ (app.call = "bind_lazy" /\ app.pc = "done"
           /\ app.typed_args.kind = "instance"
           /\ verify(parser, app.bindings) # NoError)
          => /\ app.outcome = "ValueError"
             /\ app.error = verify(parser, app.bindings)

C4_Witness ==
    /\ app.call = "bind_lazy"
    /\ app.outcome = "ValueError"
    /\ LogNames = <<"parse_args", "generator", "verify">>
    /\ Len(app.bindings) >= 1

\* the record types the parser's type mapping holds
MappedTypes == SeqToSet(DictValues(parser.type_mapping))

\* C29: the exact type of every instance parse_args returns is a value of the
\* parser's type mapping.  Hence, once verify has accepted the bindings of a
\* run, one of them declares exactly the type of the instance, the dispatch
\* loop calls its handler, and App.run never ends in the AssertionError.
C29_DispatchAlwaysMatches ==
    /\ app.typed_args.kind = "instance" => app.typed_args.type \in MappedTypes
    /\ app.pc = "verified" =>
           \E i \in 1..Len(app.resolved) :
               app.resolved[i].arg_type = app.typed_args.type
    /\ app.outcome # "AssertionError"
    /\ (app.pc = "done" /\ app.typed_args.kind = "instance"
          /\ verify(parser, app.resolved) = NoError /\ app.resolved # <<>>)
           => app.outcome = "returned"

\* a run over a mapping of several types, with a binding list that starts with
\* a binding for another type, ended in the handler for the instance's type
C29_Witness ==
    /\ app.pc = "done" /\ app.outcome = "returned"
    /\ Cardinality(MappedTypes) >= 2
    /\ app.resolved[1].arg_type # app.typed_args.type
    /\ app.typed_args.type \in MappedTypes

(***************************************************************************)
(* Properties of the materializer                                          *)
(***************************************************************************)
MatDone == mat.cls # "None" /\ mat.result.kind # "none"

MatAnnotations == collect_type_annotations(mat.cls)

MatDeclared == DictKeys(MatAnnotations)

\* the record type respects the reserved-name invariant of record types
MatWellFormed == \A i \in 1..Len(MatDeclared) : MatDeclared[i] \notin TypedArgsDict

\* the raw value the materializer reads for the i-th declared field
MatPresent(i) ==
    \/ MatDeclared[i] \in DOMAIN mat.args
    \/ WithHyphen(MatDeclared[i]) \in DOMAIN mat.args

MatRaw(i) ==
    IF MatDeclared[i] \in DOMAIN mat.args
    THEN mat.args[MatDeclared[i]]
    ELSE mat.args[WithHyphen(MatDeclared[i])]

MatInvalid(i) ==
    MatPresent(i) /\ validate(MatAnnotations[i][2], MatRaw(i))[2] # NoError

MatMissingIdx == {i \in 1..Len(MatDeclared) : ~MatPresent(i)}

MatInvalidIdx == {i \in 1..Len(MatDeclared) : MatInvalid(i)}

MatExtra ==
    IF mat.disallow_extra_args
    THEN DOMAIN mat.args \ SeqToSet(MatDeclared)
    ELSE {}

\* the elements of s at the indices in I, in the order of s
RECURSIVE SubSeqAt(_, _, _)
SubSeqAt(s, I, i) ==
    IF i > Len(s) THEN <<>>
    ELSE (IF i \in I THEN <<s[i]>> ELSE <<>>) \o SubSeqAt(s, I, i + 1)

MatMissingNames == SubSeqAt(MatDeclared, MatMissingIdx, 1)

\* the field names an error message carries after its wording
MsgNames(msg) == {msg[i] : i \in 2..Len(msg)}

\* C9: when declared fields are absent and every present field validates, the
\* materialization raises one TypeError naming all missing fields in declaration
\* order (singular wording for one field, the list for several), and produces no
\* instance.
C9_MissingFieldsAllNamed ==
    (MatDone /\ MatWellFormed /\ MatMissingIdx # {} /\ MatInvalidIdx = {})
    => /\ mat.result.kind = "TypeError"
       /\ mat.result.dict = <<>>
       /\ mat.result.msg =
            IF Cardinality(MatMissingIdx) = 1
            THEN <<"Arguments object is missing argument">> \o MatMissingNames
            ELSE <<"Arguments object is missing arguments">> \o MatMissingNames

C9_Witness ==
    /\ MatDone /\ MatWellFormed /\ MatInvalidIdx = {}
    /\ Cardinality(MatMissingIdx) >= 2
    /\ Base[mat.cls] # "TypedArgs"
    /\ 1 \in MatMissingIdx
    /\ mat.result.kind = "TypeError"

\* all offending fields of the attempt: mistyped values, absent declared fields,
\* and extra raw values when extras are disallowed
MatOffending ==
    {MatDeclared[i] : i \in MatInvalidIdx \cup MatMissingIdx} \cup MatExtra

\* C10 as stated: an attempt with several offending fields raises one error that
\* names every offending field.
C10_AllOffendingNamed ==
    (MatDone /\ MatWellFormed /\ Cardinality(MatOffending) >= 2)
    => /\ mat.result.kind = "TypeError"
       /\ MatOffending \subseteq MsgNames(mat.result.msg)

\* C10 amended: an attempt with offending fields raises one TypeError; it names
\* only the first mistyped field in declaration order if a present value fails
\* validation, otherwise every missing field, otherwise every extra raw value.
C10_FirstCategoryNamed ==
    (MatDone /\ MatWellFormed /\ MatOffending # {})
    => /\ mat.result.kind = "TypeError"
       /\ IF MatInvalidIdx # {}
          THEN LET first == CHOOSE i \in MatInvalidIdx :
                                \A j \in MatInvalidIdx : i <= j
               IN  /\ mat.result.msg[1] = "Failed to validate argument"
                   /\ mat.result.msg[2] = MatDeclared[first]
                   /\ \A i \in (MatInvalidIdx \cup MatMissingIdx) \ {first} :
                         \A k \in 1..Len(mat.result.msg) :
                            mat.result.msg[k] # MatDeclared[i]
          ELSE IF MatMissingIdx # {}
          THEN MsgNames(mat.result.msg) = {MatDeclared[i] : i \in MatMissingIdx}
          ELSE MsgNames(mat.result.msg) = MatExtra

C10_Witness ==
    /\ MatDone /\ MatWellFormed
    /\ Cardinality(MatInvalidIdx) >= 2
    /\ MatMissingIdx # {}
    /\ mat.result.kind = "TypeError"
    /\ mat.result.msg[2] = MatDeclared[CHOOSE i \in MatInvalidIdx :
                                           \A j \in MatInvalidIdx : i <= j]

\* the extra raw names in Python's string order (the names of the model that
\* can be extra are single words in lower case)
MatExtraSorted ==
    LET order == <<"foo", "from_argparse", "mode", "my-arg", "num", "verbose",
                   "x", "y">>
    IN  SubSeqAt(order, {i \in 1..Len(order) : order[i] \in MatExtra}, 1)

\* C30: the declared fields are processed in declaration order.  The first
\* present field whose value fails validation raises its TypeError, also when
\* other declared fields are missing; the missing-fields error is raised only
\* if every present field validated; the extra-arguments error is raised only
\* when extras are disallowed and no field is missing, and lists the extras in
\* sorted order.  Otherwise the instance holds exactly the declared fields with
\* their validated values: a raw name that is no declared field is not stored.
C30_ErrorPrecedence ==
    (MatDone /\ MatWellFormed) =>
        IF MatInvalidIdx # {}
        THEN LET first == CHOOSE i \in MatInvalidIdx : \A j \in MatInvalidIdx : i <= j
             IN  /\ mat.result.kind = "TypeError"
                 /\ mat.result.msg =
                        <<"Failed to validate argument", MatDeclared[first]>>
                        \o validate(MatAnnotations[first][2], MatRaw(first))[2]
        ELSE IF MatMissingIdx # {}
        THEN /\ mat.result.kind = "TypeError"
             /\ mat.result.msg =
                    (IF Cardinality(MatMissingIdx) = 1
                     THEN <<"Arguments object is missing argument">>
                     ELSE <<"Arguments object is missing arguments">>)
                    \o MatMissingNames
        ELSE IF MatExtra # {}
        THEN /\ mat.result.kind = "TypeError"
             /\ mat.result.msg =
                    (IF Cardinality(MatExtra) = 1
                     THEN <<"Arguments object has an unexpected extra argument">>
                     ELSE <<"Arguments object has unexpected extra arguments">>)
                    \o MatExtraSorted
        ELSE /\ mat.result.kind = "instance"
             /\ DictKeys(mat.result.dict) = MatDeclared
             /\ \A i \in 1..Len(MatDeclared) :
                    mat.result.dict[i][2] = validate(MatAnnotations[i][2], MatRaw(i))[1]

\* a mistyped first field came with a missing field and with an extra raw
\* name, and the mistyped field was reported
C30_Witness ==
    /\ MatDone /\ MatWellFormed
    /\ 1 \in MatInvalidIdx /\ MatMissingIdx # {} /\ MatExtra # {}
    /\ mat.result.kind = "TypeError"
    /\ mat.result.msg[1] = "Failed to validate argument"

\* two extra raw names were reported in sorted order
ExtrasReportedSorted ==
    /\ MatDone /\ MatWellFormed
    /\ mat.result.msg = <<"Arguments object has unexpected extra arguments", "x", "y">>

\* raw names that are no declared fields were left out of the instance
ExtrasLeftOut ==
    /\ MatDone /\ ~mat.disallow_extra_args
    /\ mat.result.kind = "instance"
    /\ DOMAIN mat.args \ SeqToSet(MatDeclared) # {}

(***************************************************************************)
(* Properties of common args in branches (SpecIsolation)                   *)
(***************************************************************************)
\* the default each record type declares or inherits for its fields
DeclaredDefault ==
    [type \in {"Root", "FooRoot", "FooA", "FooB", "Bar"} |->
        [f \in {"root", "foo_root", "a", "b"} |->
            CASE f = "root" -> PyStr("root")
              [] f = "foo_root" /\ type = "Bar" -> PyStr("foo_root_in_other_branch")
              [] f = "foo_root" -> PyStr("foo_root")
              [] f = "a" -> PyStr("a")
              [] f = "b" -> PyStr("b")]]

\* the fields of a record type, inherited ones included
DeclaredFields ==
    [type \in {"Root", "FooRoot", "FooA", "FooB", "Bar"} |->
        CASE type = "Root" -> {"root"}
          [] type \in {"FooRoot", "Bar"} -> {"root", "foo_root"}
          [] type = "FooA" -> {"root", "foo_root", "a"}
          [] type = "FooB" -> {"root", "foo_root", "b"}]

\* for each leaf of the tree, its record type and the arguments added to the
\* native parsers on the path from the root to the leaf
RECURSIVE RegisteredOnPaths(_, _, _)
RegisteredOnPaths(t, native, above) ==
    IF t.kind = "args"
    THEN {[type |-> t.type, actions |-> above \o native.actions]}
    ELSE UNION {RegisteredOnPaths(t.subs[i].child,
                                  DictGet(native.name_parser_map, t.subs[i].name),
                                  above \o native.actions) :
                   i \in 1..Len(t.subs)}

\* the positions of the command line that give a value to field f
GivenAt(f) ==
    {i \in 1..Len(parsed.raw_args) :
        parsed.raw_args[i].kind = "option" /\ parsed.raw_args[i].dest = f}

\* C22: what an ancestor group's common_args registered counts as registered
\* for the descendants of that group only.  On the path from the root to each
\* leaf, every field of the leaf's record type is added exactly once, with the
\* default that the leaf's record type declares or inherits: foo_root is added
\* for Bar under 'bar' with Bar's default although FooRoot is common_args of the
\* group 'foo'.  An instance parsed holds, for every field, the value given on
\* the command line or else the default of its own record type.
C22_BranchIsolation ==
    /\ parser.state = "ready" =>
          \A path \in RegisteredOnPaths(parser.args_or_group,
                                        parser.argparse_parser, <<>>) :
              \A f \in DeclaredFields[path.type] :
                  LET added == {k \in 1..Len(path.actions) : path.actions[k].dest = f}
                  IN  /\ Cardinality(added) = 1
                      /\ \A k \in added :
                             path.actions[k].default = DeclaredDefault[path.type][f]
    /\ (parsed.called /\ parsed.result.kind = "instance") =>
          /\ SeqToSet(DictKeys(parsed.result.dict)) = DeclaredFields[parsed.result.type]
          /\ \A f \in DeclaredFields[parsed.result.type] :
                 DictGet(parsed.result.dict, f) =
                    IF GivenAt(f) = {} THEN DeclaredDefault[parsed.result.type][f]
                    ELSE PyStr(parsed.raw_args[
                             CHOOSE i \in GivenAt(f) : \A j \in GivenAt(f) : j <= i].value)

\* both groups declare common_args; "bar" alone gave a Bar with Bar's own
\* foo_root, while the path to the leaf a holds FooRoot's foo_root
C22_Witness ==
    /\ parsed.called
    /\ parser.args_or_group.common = "Root"
    /\ parser.args_or_group.subs[1].child.common = "FooRoot"
    /\ parsed.raw_args = <<NameToken("bar")>>
    /\ parsed.result.kind = "instance" /\ parsed.result.type = "Bar"
    /\ DictGet(parsed.result.dict, "foo_root") = PyStr("foo_root_in_other_branch")
    /\ DictGet(parsed.result.dict, "root") = PyStr("root")
    /\ \E path \in RegisteredOnPaths(parser.args_or_group,
                                      parser.argparse_parser, <<>>) :
          /\ path.type = "FooA"
          /\ \E k \in 1..Len(path.actions) :
                /\ path.actions[k].dest = "foo_root"
                /\ path.actions[k].default = PyStr("foo_root")

\* foo_root given under 'foo' and a leaf chosen: the instance holds the value
CommonValueGiven ==
    /\ parsed.called
    /\ parsed.raw_args = <<NameToken("foo"), OptionToken("foo_root", "f"), NameToken("a")>>
    /\ parsed.result.kind = "instance" /\ parsed.result.type = "FooA"
    /\ DictGet(parsed.result.dict, "foo_root") = PyStr("f")
    /\ DictGet(parsed.result.dict, "a") = PyStr("a")

(***************************************************************************)
(* Properties of the add_argument call of a field (SpecArg)                *)
(***************************************************************************)
FieldBuilt == fld.state \in {"built", "parsed"}

FieldIsOptional == get_underlying_if_optional(fld.annotation) # <<>>

\* the annotation under the Optional, if any
FieldUnwrapped ==
    IF FieldIsOptional THEN get_underlying_if_optional(fld.annotation)[1]
    ELSE fld.annotation

FieldIsList == FieldUnwrapped.origin = "list"

FieldIsBool == FieldUnwrapped = Scalar("bool")

FieldHasDefault == fld.arg.default # PyNone \/ fld.arg.dynamic_default # <<>>

FieldDefault ==
    IF fld.arg.default # PyNone THEN fld.arg.default ELSE fld.arg.dynamic_default[1]

\* the command line was parsed and had no string at all: the field was omitted
FieldOmitted == fld.state = "parsed" /\ fld.argv = <<>>

\* the 'required' keyword is passed iff the field is no switch, is not
\* Optional, has no default and is not positional
RequiredKeyword ==
    FieldBuilt =>
        (fld.added.required <=>
            (~FieldIsBool /\ ~FieldIsOptional /\ ~FieldHasDefault
             /\ ~fld.arg.positional))

FieldDemanded ==
    \/ ~FieldIsBool /\ ~FieldIsOptional /\ ~FieldHasDefault /\ ~fld.arg.positional
    \/ fld.arg.positional /\ ~FieldIsList /\ ~FieldHasDefault
    \/ fld.arg.positional /\ FieldIsList /\ fld.arg.nargs = "+"

\* what the namespace holds for a field that is omitted and not demanded
OmittedValue ==
    IF FieldIsBool THEN PyBool(FieldHasDefault /\ FieldDefault = PyBool(TRUE))
    ELSE IF FieldHasDefault THEN FieldDefault
    ELSE IF fld.arg.positional THEN PyList(<<>>)
    ELSE PyNone

OptionalListOmitted ==
    /\ FieldOmitted
    /\ fld.annotation = OptionalOf(ListOf(Scalar("str")))
    /\ ~fld.arg.positional /\ ~FieldHasDefault
    /\ fld.result = [kind |-> "instance", value |-> PyNone]

\* a List[str] flag without default was omitted and the command line rejected
ListFlagOmitted ==
    /\ FieldOmitted
    /\ fld.annotation = ListOf(Scalar("str"))
    /\ ~fld.arg.positional /\ ~FieldHasDefault /\ fld.added.required
    /\ fld.result.kind = "exit"

\* "--" and the field name with hyphens for underscores
LongSpelling == ("x" :> "--x") @@ ("my_arg" :> "--my-arg")

\* the flags of one "-" and one character
ShortFlags == {"-m"}

\* the strings registered as option strings of the field
Registered == {o \in DOMAIN Chars : Chars[o] \in SeqToSet(fld.added.name_or_flags)}

\* the string is a proper prefix of the option string
Abbreviates == {<<"--my-arg", "--my-args">>}

FieldIsFlag == FieldBuilt /\ ~fld.arg.positional

\* a command line of a string that starts with "-" followed by a value
FlagThenValue ==
    /\ fld.state = "parsed" /\ ~fld.arg.positional
    /\ Len(fld.argv) = 2 /\ fld.argv[1] # "v" /\ fld.argv[2] = "v"

\* C25 as stated: without flags the only spelling of a non-positional field
\* is the long form of its name; with short flags only, the long form is added
\* to them; with an explicit long flag only the given flags are registered and
\* the long form of the name is rejected; the value is stored under the name
\* of the field.
C25_LongFormForShortFlags ==
    /\ FieldIsFlag =>
          /\ Registered =
                IF fld.arg.flags = <<>> THEN {LongSpelling[fld.name]}
                ELSE IF SeqToSet(fld.arg.flags) \subseteq ShortFlags
                THEN SeqToSet(fld.arg.flags) \cup {LongSpelling[fld.name]}
                ELSE SeqToSet(fld.arg.flags)
          /\ fld.added.dest = fld.name
    /\ (FlagThenValue /\ ~(SeqToSet(fld.arg.flags) \subseteq ShortFlags)
         /\ fld.argv[1] = LongSpelling[fld.name])
          => fld.result.kind = "exit"

\* C25 amended: without flags the only registered spelling of a non-positional
\* field is "--" and its name with hyphens for underscores; with flags, the
\* given flags are registered, and the long form of the name is added to them
\* iff every given flag is one "-" and one character and the name of the field
\* is longer than one character.  The native parser takes a string as the
\* option of the field iff it is a registered spelling or abbreviates one: a
\* str field given such a string and a value holds the value, under the name of
\* the field; any other string that starts with "-" is rejected, so the long
\* form of the name is rejected where it is not registered unless it
\* abbreviates a given flag.
C25_FlagSpellings ==
    /\ FieldIsFlag =>
          /\ Registered =
                IF fld.arg.flags = <<>> THEN {LongSpelling[fld.name]}
                ELSE IF SeqToSet(fld.arg.flags) \subseteq ShortFlags
                        /\ fld.name # "x"
                THEN SeqToSet(fld.arg.flags) \cup {LongSpelling[fld.name]}
                ELSE SeqToSet(fld.arg.flags)
          /\ fld.added.dest = fld.name
    /\ FlagThenValue =>
          LET taken == \/ fld.argv[1] \in Registered
                       \/ \E o \in Registered : <<fld.argv[1], o>> \in Abbreviates
          IN  /\ ~taken => fld.result.kind = "exit"
              /\ (taken /\ fld.annotation = Scalar("str")) =>
                     fld.result = [kind |-> "instance", value |-> PyStr("v")]

\* the field x with the flag -m: the long form --x was not registered, and the
\* command line --x v was rejected
C25_Witness ==
    /\ FlagThenValue
    /\ fld.name = "x" /\ fld.arg.flags = <<"-m">>
    /\ fld.annotation = Scalar("str")
    /\ Registered = {"-m"}
    /\ fld.argv = <<"--x", "v">>
    /\ fld.result.kind = "exit"

\* the field my_arg with the flag -m: the long form was added and is taken
LongFormAdded ==
    /\ FlagThenValue
    /\ fld.name = "my_arg" /\ fld.arg.flags = <<"-m">>
    /\ Registered = {"-m", "--my-arg"}
    /\ fld.argv = <<"--my-arg", "v">>
    /\ fld.result = [kind |-> "instance", value |-> PyStr("v")]

\* the field my_arg with the flag --my-args: the long form of the name is not
\* registered, and is taken as an abbreviation of the flag
LongFormAbbreviates ==
    /\ FlagThenValue
    /\ fld.name = "my_arg" /\ fld.arg.flags = <<"--my-args">>
    /\ Registered = {"--my-args"}
    /\ fld.argv = <<"--my-arg", "v">>
    /\ fld.result = [kind |-> "instance", value |-> PyStr("v")]

\* the name with its underscore is no spelling of the field
UnderscoreRejected ==
    /\ FlagThenValue
    /\ fld.name = "my_arg" /\ fld.arg.flags = <<>>
    /\ fld.argv = <<"--my_arg", "v">>
    /\ fld.result.kind = "exit"

\* a flag that does not start with "-" makes the construction fail
InvalidFlags ==
    /\ fld.state = "failed"
    /\ fld.arg.flags = <<"bar">>
    /\ fld.added.error = <<"ValueError", "Invalid flags", <<"bar">>>>

\* the default declared for the switch is True
SwitchDefaultsTrue == FieldHasDefault /\ FieldDefault = PyBool(TRUE)

\* the command line consists of one registered spelling of the field
FlagAlone ==
    /\ fld.state = "parsed" /\ ~fld.arg.positional
    /\ Len(fld.argv) = 1 /\ fld.argv[1] \in Registered

\* C26: a bool field is a switch that takes no value: without default or with
\* default False it stores True (action store_true), False when the flag is
\* absent and True when it is present; with default True it stores False
\* (action store_false), True when absent and False when present; a flag
\* followed by a value is rejected.  Any other default makes the construction
\* fail with RuntimeError "Invalid default for bool".  The switch is never
\* marked required and gets no type, no choices and no nargs, whatever its Arg
\* declares.
C26_BoolSwitch ==
    FieldIsBool =>
        /\ fld.state # "declared" =>
              IF FieldHasDefault /\ FieldDefault \notin {PyBool(TRUE), PyBool(FALSE)}
              THEN /\ fld.state = "failed"
                   /\ fld.added.error =
                          <<"RuntimeError", "Invalid default for bool", FieldDefault>>
              ELSE fld.state = "failed" =>
                       /\ fld.added.error[1] = "ValueError"
                       /\ fld.arg.flags = <<"bar">>
        /\ FieldBuilt =>
              /\ fld.added.action =
                     IF SwitchDefaultsTrue THEN "store_false" ELSE "store_true"
              /\ ~fld.added.required
              /\ fld.added.type.kind = "None"
              /\ fld.added.choices = <<>>
              /\ fld.added.nargs = "None"
        /\ FieldOmitted =>
              fld.result = [kind |-> "instance", value |-> PyBool(SwitchDefaultsTrue)]
        /\ FlagAlone =>
              fld.result = [kind |-> "instance", value |-> PyBool(~SwitchDefaultsTrue)]
        /\ (FlagThenValue /\ fld.argv[1] \in Registered) => fld.result.kind = "exit"

\* the negating switch of a field declared with default True, a type and
\* choices: no type and no choices were passed, and the flag alone gave False
C26_Witness ==
    /\ FlagAlone
    /\ fld.annotation = Scalar("bool")
    /\ fld.arg.default = PyBool(TRUE)
    /\ fld.arg.type = "str" /\ fld.arg.dynamic_choices # <<>>
    /\ fld.added.action = "store_false"
    /\ fld.added.type.kind = "None" /\ fld.added.choices = <<>>
    /\ fld.result = [kind |-> "instance", value |-> PyBool(FALSE)]

\* a bool field with the default "d": the construction failed
InvalidBoolDefault ==
    /\ fld.state = "failed"
    /\ fld.annotation = Scalar("bool")
    /\ fld.arg.default = PyStr("d")
    /\ fld.added.error = <<"RuntimeError", "Invalid default for bool", PyStr("d")>>

\* a str field declared with a type and choices got both
TypedScalarField ==
    /\ FieldBuilt
    /\ fld.annotation = Scalar("str")
    /\ fld.added.type.kind = "type" /\ fld.added.choices # <<>>

(***************************************************************************)
(* Properties of the validation against a union of record types (SpecUni)  *)
(***************************************************************************)
\* the members of the given type: those of a Union, none of any other type
UniMembers ==
    IF uni.type_union.origin = "Union" THEN uni.type_union.args ELSE <<>>

\* the positions of the record types among the members
UniCandidates == {i \in 1..Len(UniMembers) : UniMembers[i].raw \in Classes}

\* the materialization of the i-th member from the raw namespace
UniTried(i) == from_argparse(UniMembers[i].raw, uni.args, FALSE)

UniAccepting == {i \in UniCandidates : UniTried(i).kind = "instance"}

\* the failures of the candidates from the i-th member on, each after a "-"
RECURSIVE UniFailures(_)
UniFailures(i) ==
    IF i > Len(UniMembers) THEN <<>>
    ELSE (IF i \in UniCandidates THEN <<"-">> \o UniTried(i).msg ELSE <<>>)
         \o UniFailures(i + 1)

\* C23: the validation returns the instance of the first record type of the
\* union, in declared order, that materializes from the raw namespace; if every
\* record type fails, it raises one TypeError that lists the failure of every
\* record type in declared order; if the given type has no record type among
\* its members, it raises the TypeError "did not contain any sub types of type
\* TypedArgs".
C23_FirstCandidateOrAllFailures ==
    uni.called =>
        IF UniAccepting # {}
        THEN LET first == CHOOSE i \in UniAccepting : \A j \in UniAccepting : i <= j
             IN  /\ uni.result = UniTried(first)
                 /\ uni.result.type = UniMembers[first].raw
        ELSE /\ uni.result.kind = "TypeError"
             /\ uni.result.msg =
                    IF UniCandidates = {}
                    THEN <<"Type union", "did not contain any sub types of type TypedArgs">>
                    ELSE <<"Validation failed against all sub types of union type">>
                         \o UniFailures(1)

\* the second of two accepting record types came first in the union and was
\* returned, after a member that is no record type
C23_Witness ==
    /\ uni.called
    /\ uni.type_union = UnionOf(<<Scalar("str"), Scalar("FooArgs"), Scalar("CommonArgs")>>)
    /\ UniAccepting = {2, 3}
    /\ uni.result.kind = "instance" /\ uni.result.type = "FooArgs"

\* every record type of the union failed, and both failures were listed
AllCandidatesFailed ==
    /\ uni.called
    /\ Cardinality(UniCandidates) = 2 /\ UniAccepting = {}
    /\ uni.result.msg[1] = "Validation failed against all sub types of union type"

\* a record type given alone is no union: it is not tried
SingleRecordTypeNotTried ==
    /\ uni.called
    /\ uni.type_union = Scalar("CommonArgs")
    /\ from_argparse("CommonArgs", uni.args, FALSE).kind = "instance"
    /\ uni.result.kind = "TypeError"

(***************************************************************************)
(* Properties of validation (SpecVal)                                      *)
(***************************************************************************)
\* a class annotation that is neither an Enum nor a NewType nor NoneType
IsScalarAnn(a) ==
    /\ a.origin = "None"
    /\ a.raw \notin DOMAIN EnumMembers
    /\ a.raw \notin DOMAIN NewTypes
    /\ a.raw # "NoneType"

\* the type mismatch message for a value checked against the class T
TypeMismatch(value, T) == <<"value is of type", value.t, "expected", T>>

\* the classes of the model that derive from another class of the model
ProperSubclasses == {<<"bool", "int">>, <<"MySubClass", "MyClass">>}

\* C11 as stated: against a scalar annotation T a value of exactly the type T
\* is returned unchanged without error, and a value of any other concrete type
\* is returned with the error "value is of type <actual>, expected <T>".
C11_ExactTypeOnly ==
    (val.called /\ IsScalarAnn(val.annotation)) =>
        val.result = IF val.value.t = val.annotation.raw
                     THEN <<val.value, NoError>>
                     ELSE <<val.value, TypeMismatch(val.value, val.annotation.raw)>>

\* C11 amended: against a scalar annotation T a value whose type is T or a
\* subclass of T (bool for int, MySubClass for MyClass) is returned unchanged
\* without error; a value of any other type is returned with the error
\* "value is of type <actual>, expected <T>".
C11_ScalarIsInstance ==
    (val.called /\ IsScalarAnn(val.annotation)) =>
        val.result = IF \/ val.value.t = val.annotation.raw
                        \/ <<val.value.t, val.annotation.raw>> \in ProperSubclasses
                     THEN <<val.value, NoError>>
                     ELSE <<val.value, TypeMismatch(val.value, val.annotation.raw)>>

\* a str has been validated against int and the mismatch was reported
C11_Witness ==
    /\ val.called
    /\ val.annotation = Scalar("int")
    /\ val.value = PyStr("a")
    /\ val.result = <<PyStr("a"), <<"value is of type", "str", "expected", "int">>>>

\* the annotations T for which the validated annotation is Optional[T]: the
\* annotation itself when None is among its members, and the Union of the
\* members before None when None is the last one
OptionalInners ==
    LET A == val.annotation
        n == Len(A.args)
    IN  IF A.origin = "Union" /\ \E i \in 1..n : A.args[i] = Scalar("NoneType")
        THEN {A} \cup (IF A.args[n] = Scalar("NoneType")
                       THEN {UnionOf(SubSeq(A.args, 1, n - 1))} ELSE {})
        ELSE {}

\* C12 as stated: against Optional[T] None validates to (None, no error) and
\* any other value validates to exactly what it validates to against T.
C12_OptionalDelegates ==
    val.called =>
        \A T \in OptionalInners :
            val.result = IF val.value = PyNone THEN <<PyNone, NoError>>
                         ELSE validate(T, val.value)

\* C12 amended: when T is not a Union, Optional[T] validates None to (None, no
\* error) and any other value to what T validates it to.  When T is a Union,
\* Optional[T] is the Union of T's members and None: a value (None included)
\* that T accepts is converted as T converts it, None is otherwise accepted as
\* None, and a value that T rejects is rejected with T's error followed by one
\* more reason, the mismatch with NoneType.
C12_OptionalOrFlattenedUnion ==
    val.called =>
        \A T \in OptionalInners :
            LET r == validate(T, val.value)
                hasNone == \E i \in 1..Len(T.args) : T.args[i] = Scalar("NoneType")
            IN  val.result =
                    IF T.origin # "Union"
                    THEN IF val.value = PyNone THEN <<PyNone, NoError>> ELSE r
                    ELSE IF r[2] = NoError \/ hasNone THEN r
                    ELSE IF val.value = PyNone THEN <<PyNone, NoError>>
                    ELSE <<val.value,
                           r[2] \o <<"-">> \o TypeMismatch(val.value, "NoneType")>>

\* a str has been validated against Optional[int] and was rejected as int
\* rejects it
C12_Witness ==
    /\ val.called
    /\ val.annotation = OptionalOf(Scalar("int"))
    /\ val.value = PyStr("a")
    /\ val.result = <<PyStr("a"), TypeMismatch(PyStr("a"), "int")>>

\* C13: against a non-Optional List[T], None validates to the empty list; a
\* value that is not a list is rejected with "value is of type <actual>,
\* expected list" whatever T is; a list is accepted exactly when every element
\* validates against T, and the result is then the list of the converted
\* elements in order; otherwise the error reports the error of the first
\* failing element.  Against Optional[List[T]], None validates to None.
C13_ListValidation ==
    val.called =>
        /\ val.annotation.origin = "list" =>
              LET T == val.annotation.args[1]
                  v == val.value
              IN  IF v = PyNone THEN val.result = <<PyList(<<>>), NoError>>
                  ELSE IF v.t # "list"
                  THEN val.result = <<v, TypeMismatch(v, "list")>>
                  ELSE LET rs == [i \in 1..Len(v.items) |-> validate(T, v.items[i])]
                           bad == {i \in 1..Len(v.items) : rs[i][2] # NoError}
                       IN  IF bad = {}
                           THEN val.result =
                                   <<PyList([i \in 1..Len(v.items) |-> rs[i][1]]),
                                     NoError>>
                           ELSE LET first == CHOOSE i \in bad : \A j \in bad : i <= j
                                IN  /\ val.result[1] = v
                                    /\ val.result[2] =
                                          <<"not all elements of the list have proper type (">>
                                          \o rs[first][2] \o <<")">>
        /\ (/\ val.annotation.origin = "Union"
            /\ val.annotation = OptionalOf(val.annotation.args[1])
            /\ val.annotation.args[1].origin = "list"
            /\ val.value = PyNone)
              => val.result = <<PyNone, NoError>>

\* a list whose second element is the first one that is not an int has been
\* validated against List[int]
C13_Witness ==
    /\ val.called
    /\ val.annotation = ListOf(Scalar("int"))
    /\ val.value = PyList(<<PyInt("1"), PyStr("a")>>)
    /\ val.result[2] = <<"not all elements of the list have proper type (",
                         "value is of type", "str", "expected", "int", ")">>

\* the value equals the i-th allowed literal: the same value of the same type,
\* or a bool and the int it counts as
EqualsLiteral(v, allowed, i) ==
    \/ v = allowed[i]
    \/ /\ v.t = "bool" /\ allowed[i].t = "int"
       /\ allowed[i].v = (IF v = PyBool(TRUE) THEN "1" ELSE "0")

\* C14: against Literal[v1, ..., vn] a value equal to one of the vi is returned
\* unchanged without error, and a value equal to none of them is rejected with
\* "value <v> does not match any allowed literal value in (v1, ..., vn)", the
\* allowed values in declared order.
C14_LiteralValidation ==
    (val.called /\ val.annotation.origin = "Literal") =>
        LET allowed == val.annotation.args
        IN  IF \E i \in 1..Len(allowed) : EqualsLiteral(val.value, allowed, i)
            THEN val.result = <<val.value, NoError>>
            ELSE val.result =
                    <<val.value,
                      <<"value">> \o Str(val.value)
                      \o <<"does not match any allowed literal value in">>
                      \o ReprAll(allowed)>>

\* an int has been validated against Literal["b", "a"] and was rejected with
\* the allowed values in declared order
C14_Witness ==
    /\ val.called
    /\ val.annotation = LiteralOf(<<PyStr("b"), PyStr("a")>>)
    /\ val.value = PyInt("4")
    /\ val.result = <<PyInt("4"),
                      <<"value", "4", "does not match any allowed literal value in",
                        "'", "b", "'", "'", "a", "'">>>>

\* the validated annotation is an Enum class
IsEnumAnn(a) == a.origin = "None" /\ a.raw \in DOMAIN EnumMembers

\* the members of the validated Enum whose value the value equals, or which
\* the value is
EnumHits(E, v) ==
    LET values == [i \in 1..Len(EnumMembers[E]) |-> EnumMembers[E][i].value]
    IN  {i \in 1..Len(values) :
            \/ EqualsLiteral(v, values, i)
            \/ v = PyEnum(E, EnumMembers[E][i].name)}

\* the strings of the model that are alike the name of a member without
\* being equal to the value of a member
NameAlike ==
    {<<"StrEnum", PyStr("some_foo")>>, <<"StrEnum", PyStr("SoMe-FoO")>>,
     <<"IntEnum", PyStr("a")>>}

\* C15 as stated: against an Enum a value equal to a member's value validates
\* to that member, a string alike a member's name validates to that member as
\* well, and any other value is rejected.
C15_NameAlikeValidates ==
    (val.called /\ IsEnumAnn(val.annotation)) =>
        ((EnumHits(val.annotation.raw, val.value) # {}
          \/ <<val.annotation.raw, val.value>> \in NameAlike)
            <=> val.result[2] = NoError)

\* the member a command line token stands for after conversion: by name or by
\* value, case and "-"/"_" ignored, or by the value the token converts to
TokenMember ==
    (<<"StrEnum", "some_foo">> :> "some_foo") @@
    (<<"StrEnum", "SoMe-FoO">> :> "some_foo") @@
    (<<"StrEnum", "some_foo_value">> :> "some_foo") @@
    (<<"IntEnum", "a">> :> "a") @@
    (<<"IntEnum", "1">> :> "a") @@
    (<<"IntEnum", "b">> :> "b") @@
    (<<"MixEnum", "a">> :> "a") @@
    (<<"MixEnum", "b">> :> "B")

\* C15 amended: validate against an Enum returns the first member whose value
\* equals the value, or the member the value is, and rejects every other value,
\* a string alike a member's name included, with "value <v> does not match any
\* allowed enum value in (<members>)".  Names are matched by the converter of
\* command line tokens: a token alike a member's name or value (case and
\* "-"/"_" ignored), or converting to a member's value, is converted to that
\* member before validation, which then returns the member; any other token is
\* left as it is and rejected by the native parser's choices.
C15_EnumValidation ==
    IsEnumAnn(val.annotation) =>
        LET E == val.annotation.raw
            hits == EnumHits(E, val.value)
            members == [i \in 1..Len(EnumMembers[E]) |-> PyEnum(E, EnumMembers[E][i].name)]
        IN  /\ val.called =>
                  val.result =
                      IF hits # {}
                      THEN <<members[CHOOSE i \in hits : \A j \in hits : i <= j], NoError>>
                      ELSE <<val.value,
                             <<"value">> \o Str(val.value)
                             \o <<"does not match any allowed enum value in">>
                             \o ReprAll(members)>>
            /\ val.converted =>
                  IF <<E, val.token.v>> \in DOMAIN TokenMember
                  THEN /\ val.value = PyEnum(E, TokenMember[<<E, val.token.v>>])
                       /\ ~val.rejected
                       /\ val.called => val.result = <<val.value, NoError>>
                  ELSE val.value = val.token /\ val.rejected /\ ~val.called

\* the token SoMe-FoO has been converted to the member some_foo, which then
\* validated
C15_Witness ==
    /\ val.called /\ val.converted
    /\ val.annotation = Scalar("StrEnum")
    /\ val.token = PyStr("SoMe-FoO")
    /\ val.result = <<PyEnum("StrEnum", "some_foo"), NoError>>

\* the failure reasons of the members from the i-th on, each after a "-"
RECURSIVE MemberReasons(_, _)
MemberReasons(rs, i) ==
    IF i > Len(rs) THEN <<>> ELSE <<"-">> \o rs[i][2] \o MemberReasons(rs, i + 1)

\* C16: against a Union that is not an Optional the members are tried in
\* declared order and the converted value of the first member that accepts the
\* value is returned; when every member rejects it the error holds the failure
\* reason of every member in declared order.
C16_UnionValidation ==
    (/\ val.called
     /\ val.annotation.origin = "Union"
     /\ ~(Len(val.annotation.args) = 2
          /\ Scalar("NoneType") \in SeqToSet(val.annotation.args))) =>
        LET members == val.annotation.args
            rs == [i \in 1..Len(members) |-> validate(members[i], val.value)]
            ok == {i \in 1..Len(members) : rs[i][2] = NoError}
        IN  IF ok # {}
            THEN val.result = <<rs[CHOOSE i \in ok : \A j \in ok : i <= j][1], NoError>>
            ELSE val.result =
                    <<val.value,
                      <<"value">> \o Str(val.value)
                      \o <<"did not match any type of union">>
                      \o MemberReasons(rs, 1)>>

\* a float has been validated against Union[int, str] and the error holds the
\* reasons of int and of str, in this order
C16_Witness ==
    /\ val.called
    /\ val.annotation = UnionOf(<<Scalar("int"), Scalar("str")>>)
    /\ val.value = PyFloat("4.5")
    /\ val.result[2] = <<"value", "4.5", "did not match any type of union",
                         "-", "value is of type", "float", "expected", "int",
                         "-", "value is of type", "float", "expected", "str">>

\* the members of Enum E the token x equals by value, equals by name, and is
\* alike: by name or value with case and "-"/"_" ignored, or by the value the
\* token converts to
TokenByValue(E, x) ==
    {i \in 1..Len(EnumMembers[E]) : PyEq(x, EnumMembers[E][i].value)}

TokenByName(E, x) ==
    {i \in 1..Len(EnumMembers[E]) : x = PyStr(EnumMembers[E][i].name)}

TokenAlike(E, x) ==
    {i \in 1..Len(EnumMembers[E]) :
        LET m == EnumMembers[E][i]
        IN  \/ _fuzzy_compare(x, PyStr(m.name))
            \/ _fuzzy_compare(x, m.value)
            \/ m.value.t = "int" /\ x.v \in {"1", "2", "3"} /\ m.value.v = x.v}

\* the first member of Enum E, in declaration order, among those of S
MemberAt(E, S) ==
    PyEnum(E, EnumMembers[E][CHOOSE i \in S : \A j \in S : i <= j].name)

\* C27 as stated: a token for an Enum field is resolved to the member whose value
\* it equals; failing that, to the member whose name it equals; failing that,
\* to a member it is alike; a token alike no member is rejected by the choices.
C27_ValueThenNameThenFuzzy ==
    (val.converted /\ IsEnumAnn(val.annotation)) =>
        LET E == val.annotation.raw
            x == val.token
        IN  IF TokenByValue(E, x) # {}
            THEN val.value = MemberAt(E, TokenByValue(E, x)) /\ ~val.rejected
            ELSE IF TokenByName(E, x) # {}
            THEN val.value = MemberAt(E, TokenByName(E, x)) /\ ~val.rejected
            ELSE IF TokenAlike(E, x) # {}
            THEN val.value = MemberAt(E, TokenAlike(E, x)) /\ ~val.rejected
            ELSE val.value = x /\ val.rejected

\* C27 (amended): the members are tried in declaration order, and the token is
\* resolved to the first member it is alike, whether by name, by value or by
\* the value it converts to; a later member is never preferred for matching
\* by value or for matching exactly.  A token alike no member stays as it is
\* and is rejected by the choices.
C27_FirstMemberAlike ==
    (val.converted /\ IsEnumAnn(val.annotation)) =>
        LET E == val.annotation.raw
            x == val.token
        IN  IF TokenAlike(E, x) # {}
            THEN val.value = MemberAt(E, TokenAlike(E, x)) /\ ~val.rejected
            ELSE val.value = x /\ val.rejected

\* the token b was resolved to the member B, whose name it is alike, although
\* it is the value of the later member a
C27_Witness ==
    /\ val.converted
    /\ val.annotation = Scalar("MixEnum")
    /\ val.token = PyStr("b")
    /\ val.value = PyEnum("MixEnum", "B")
    /\ TokenByValue("MixEnum", val.token) = {2}

\* the annotation inspected is List[...]
IsListAnn(a) == a.origin = "list" /\ a = ListOf(a.args[1])

\* the annotation inspected is Optional[List[...]]
IsOptionalListAnn(a) ==
    /\ a.origin = "Union" /\ Len(a.args) = 2
    /\ \E i \in 1..2 : IsListAnn(a.args[i]) /\ a = OptionalOf(a.args[i])

\* C28 as stated: get_underlying_if_list looks through one layer of Optional,
\* so that on Optional[List[T]] it returns T.
C28_UnwrapsThroughOptional ==
    (val.inspected /\ IsOptionalListAnn(val.annotation)) =>
        \E i \in 1..2 :
            /\ IsListAnn(val.annotation.args[i])
            /\ val.if_list = <<val.annotation.args[i].args[1]>>

\* C28 (amended): get_underlying_if_list looks at the annotation itself only.
\* On List[X] it returns X as it is, an Optional[T] included; on every other
\* annotation, Optional[List[T]] included, it returns none.  Optional[List[T]]
\* yields T only in two steps: get_underlying_if_optional returns List[T], and
\* get_underlying_if_list of that returns T.
C28_ListUnwrapsListsOnly ==
    val.inspected =>
        /\ IsListAnn(val.annotation) => val.if_list = <<val.annotation.args[1]>>
        /\ ~IsListAnn(val.annotation) => val.if_list = <<>>
        /\ IsOptionalListAnn(val.annotation) =>
               /\ val.if_list = <<>>
               /\ \E i \in 1..2 :
                      /\ IsListAnn(val.annotation.args[i])
                      /\ val.if_optional_if_list = <<val.annotation.args[i].args[1]>>

\* Optional[List[str]] was inspected
C28_Witness ==
    /\ val.inspected
    /\ val.annotation = OptionalOf(ListOf(Scalar("str")))
    /\ val.if_list = <<>>
    /\ val.if_optional_if_list = <<Scalar("str")>>

(***************************************************************************)
(* Properties of instances (SpecCmp)                                       *)
(***************************************************************************)
\* the side is an instance materialized from a raw namespace
Materialized(side) ==
    cmp[side].how = "from_argparse" /\ cmp[side].obj.kind = "instance"

\* two raw namespaces carry the same names with equal values
EqualRaw(a, b) ==
    DOMAIN a = DOMAIN b /\ \A n \in DOMAIN a : PyEq(a[n], b[n])

\* C17: after a successful materialization, reading a declared field returns
\* exactly the value validation produced for the raw value of that field (the
\* Enum member, the rebuilt list), and two materializations of the same record
\* type from equal raw inputs compare equal.
C17_RoundTrip ==
    /\ (cmp.read # <<>> /\ Materialized(cmp.read[1])) =>
          LET side == cmp.read[1]
              name == cmp.read[2]
              annotation == DictGet(collect_type_annotations(cmp[side].obj.type), name)
          IN  cmp.read[3] = <<validate(annotation, cmp[side].args[name])[1]>>
    /\ (/\ cmp.compared
        /\ Materialized("left") /\ Materialized("right")
        /\ cmp.left.obj.type = cmp.right.obj.type
        /\ EqualRaw(cmp.left.args, cmp.right.args)) => (cmp.eq /\ ~cmp.ne)

\* the level read from an instance materialized from the raw value 1 is the
\* member a, and the instance equals one materialized from the raw value True
C17_Witness ==
    /\ Materialized("left") /\ Materialized("right")
    /\ cmp.left.obj.type = "EnumArgs" /\ cmp.right.obj.type = "EnumArgs"
    /\ cmp.left.args = [level |-> PyInt("1"), names |-> PyNone]
    /\ cmp.right.args = [level |-> PyBool(TRUE), names |-> PyNone]
    /\ cmp.read = <<"left", "level", <<PyEnum("IntEnum", "a")>> >>
    /\ cmp.compared /\ cmp.eq

\* C18: two record instances are equal exactly when they hold the same fields
\* with equal values, whatever their types; != is the negation of ==; a
\* record instance never equals a value that is no record instance.
C18_Equality ==
    cmp.compared =>
        LET L == cmp.left.obj.dict
            R == IF cmp.right.obj.kind = "instance" THEN cmp.right.obj.dict ELSE <<>>
        IN  /\ cmp.eq <=>
                  /\ cmp.right.obj.kind = "instance"
                  /\ {L[i][1] : i \in 1..Len(L)} = {R[j][1] : j \in 1..Len(R)}
                  /\ \A i \in 1..Len(L), j \in 1..Len(R) :
                        L[i][1] = R[j][1] => PyEq(L[i][2], R[j][2])
            /\ cmp.ne = ~cmp.eq
            /\ cmp.right.obj.kind = "value" => ~cmp.eq

\* a FooArgs and a CommonArgs instance that hold the same single field have
\* been compared and are equal
C18_Witness ==
    /\ cmp.compared /\ cmp.eq /\ ~cmp.ne
    /\ cmp.left.obj.type = "FooArgs" /\ cmp.right.obj.type = "CommonArgs"
    /\ cmp.left.obj.dict = << <<"verbose", PyBool(TRUE)>> >>

(***************************************************************************)
(* Properties of defaults (SpecDyn)                                        *)
(***************************************************************************)
\* C19 as stated: for a field with a list default, any two instances parsed
\* without the flag, by one Parser or by two, hold distinct list objects;
\* appending to the list of one changes neither the other nor the declared
\* default, and appending to the declared default changes no instance parsed
\* before.  Every instance holds a list object of its own, which is neither
\* the list of another instance nor the declared default, and whose elements
\* are those its parser copied from the declaration followed by the elements
\* appended through this instance; the declared default holds what was put
\* into it.
C19_DefaultIsolation ==
    /\ \A i, j \in 1..Len(dyn.instances) :
          i # j => dyn.instances[i].actions # dyn.instances[j].actions
    /\ \A i \in 1..Len(dyn.instances) :
          /\ dyn.instances[i].actions # 1
          /\ dyn.heap[dyn.instances[i].actions] =
                dyn.parsers[dyn.instances[i].parser].built_from
                \o dyn.instances[i].own
    /\ dyn.heap # <<>> => dyn.heap[1] = dyn.declared

\* the same for a field annotated List[T] or Optional[List[T]], where validate
\* builds the list of every instance anew
DefaultIsolationOfTypedLists ==
    ~returns_same_object(dyn.annotation) => C19_DefaultIsolation

\* C21 as stated: the parse_args calls on one Parser are independent, there
\* is no state shared across them: whatever was parsed before and whatever
\* was done with the instances returned, the field values a call returns for
\* a given argv are those the first call on a freshly constructed Parser
\* returns.  Every parse_args([]) returned for actions the elements its Parser
\* copied from the declaration at construction, which is what the first call
\* on that Parser returned, and the dynamic default and choices of its Parser.
C21_ParseIndependence ==
    \A i \in 1..Len(dyn.instances) :
        LET P == dyn.parsers[dyn.instances[i].parser]
        IN  /\ dyn.instances[i].returned = P.built_from
            /\ dyn.instances[i].k = P.k_default
            /\ dyn.instances[i].choices = P.choices

\* the same for a field annotated List[T] or Optional[List[T]], where no
\* instance holds the list object of its Parser
ParseIndependenceOfTypedLists ==
    ~returns_same_object(dyn.annotation) => C21_ParseIndependence

\* a parse_args call was made after an element was appended to the list of an
\* instance returned by an earlier call on the same Parser
ParsedAfterAppend ==
    \E i, j \in 1..Len(dyn.instances) :
        /\ i < j
        /\ dyn.instances[i].parser = dyn.instances[j].parser
        /\ dyn.instances[i].own # <<>>
        /\ Len(dyn.instances[j].returned)
              >= Len(dyn.parsers[dyn.instances[j].parser].built_from)
                 + Len(dyn.instances[i].own)

\* the type mapping and the key paths of a Parser are assigned by the
\* constructor only: parse_args, verify, bind and run leave the Parser as built
ParserBuiltOnce == [][parser # NoParser => parser' = parser]_vars

====
